---------------------------- MODULE Spec2Model ----------------------------
(***************************************************************************)
(* A model of the YouTube KPI posters (main.py, adsense_kpi_poster.py,     *)
(* views_kpi_poster.py): the fetch pass over the channels of the token     *)
(* store, the cross-channel reconciliation of the views variant, the       *)
(* month projection and the rendering of the report.                       *)
(*                                                                         *)
(* Python values are tagged records.  A number is Num(n); the model keeps  *)
(* metric values as integers and projections as exact fractions n/den, so  *)
(* floating-point rounding error is not modelled.  A calendar date is      *)
(* Day(y, m, d); date arithmetic goes through proleptic Gregorian          *)
(* ordinals as datetime.date does.  An ISO date string "YYYY-MM-DD" is the *)
(* triple of its zero-padded fields, compared field by field from the      *)
(* left, which is the order of the strings.                                *)
(***************************************************************************)
EXTENDS Integers, Sequences, FiniteSets, TLC

(***************************************************************************)
(* Python values                                                           *)
(***************************************************************************)
None == [tag |-> "none", n |-> 0, den |-> 1]
NotANumber == [tag |-> "str", n |-> 0, den |-> 1]
EmptyString == [tag |-> "empty_str", n |-> 0, den |-> 1]
Frac(a, b) == [tag |-> "num", n |-> a, den |-> b]
Num(a) == Frac(a, 1)
NoneDay == [tag |-> "none", y |-> 0, m |-> 0, d |-> 0]
Day(yy, mm, dd) == [tag |-> "date", y |-> yy, m |-> mm, d |-> dd]

\* isinstance(x, (int, float))
IsNumber(x) == x.tag = "num"

\* not x
Falsy(x) == x.tag \in {"none", "empty_str"} \/ (x.tag = "num" /\ x.n = 0)

(***************************************************************************)
(* datetime.date: ordinals, replace(day=...), + timedelta, subtraction     *)
(***************************************************************************)
IsLeap(y) == (y % 4 = 0) /\ ((y % 100 # 0) \/ (y % 400 = 0))

DaysInMonthTable == <<31, 28, 31, 30, 31, 30, 31, 31, 30, 31, 30, 31>>

LibDaysInMonth(y, m) ==
    IF m = 2 /\ IsLeap(y) THEN 29 ELSE DaysInMonthTable[m]

DaysBeforeYear(y) ==
    (y - 1) * 365 + ((y - 1) \div 4) - ((y - 1) \div 100) + ((y - 1) \div 400)

RECURSIVE DaysBeforeMonth(_, _)
DaysBeforeMonth(y, m) ==
    IF m = 1 THEN 0 ELSE DaysBeforeMonth(y, m - 1) + LibDaysInMonth(y, m - 1)

\* date.toordinal()
ToOrdinal(dt) == DaysBeforeYear(dt.y) + DaysBeforeMonth(dt.y, dt.m) + dt.d

RECURSIVE YearOfOrdinal(_, _)
YearOfOrdinal(n, y) ==
    IF DaysBeforeYear(y + 1) < n THEN YearOfOrdinal(n, y + 1) ELSE y

RECURSIVE MonthOfOrdinal(_, _, _)
MonthOfOrdinal(rest, y, m) ==
    IF rest > LibDaysInMonth(y, m)
    THEN MonthOfOrdinal(rest - LibDaysInMonth(y, m), y, m + 1)
    ELSE Day(y, m, rest)

\* date.fromordinal(n)
FromOrdinal(n) ==
    LET y == YearOfOrdinal(n, (n \div 366) + 1)
    IN MonthOfOrdinal(n - DaysBeforeYear(y), y, 1)

\* d + timedelta(days=k)
AddDays(dt, k) == FromOrdinal(ToOrdinal(dt) + k)

\* d.replace(day=k)
ReplaceDay(dt, k) == Day(dt.y, dt.m, k)

\* (a - b).days
DaysBetween(a, b) == ToOrdinal(a) - ToOrdinal(b)

\* a < b on dates
DayLess(a, b) == ToOrdinal(a) < ToOrdinal(b)

(***************************************************************************)
(* month_projection_for                                                    *)
(***************************************************************************)
\* next_month_first = (latest_day.replace(day=28) + timedelta(days=4)).replace(day=1)
NextMonthFirstOff3(latest_day) ==
    ReplaceDay(AddDays(ReplaceDay(latest_day, 28), 3), 1)

NextMonthFirst(latest_day) ==
    ReplaceDay(AddDays(ReplaceDay(latest_day, 28), 4), 1)

\* days_in_month = (next_month_first - latest_day.replace(day=1)).days
DaysInMonth(latest_day) ==
    DaysBetween(NextMonthFirst(latest_day), ReplaceDay(latest_day, 1))

\* max(x, 0.0) on a fraction with a positive denominator
MaxZero(x) == IF x.n < 0 THEN Num(0) ELSE x

ProjectionNoFloor(latest_day, mtd_total) ==
    IF latest_day.tag = "none" \/ ~IsNumber(mtd_total)
    THEN Num(0)
    ELSE Frac(mtd_total.n * DaysInMonth(latest_day), mtd_total.den * latest_day.d)

\* without the guard of the first line: a TypeError / AttributeError escapes
Raised == [tag |-> "raise", n |-> 0, den |-> 1]

ProjectionNoGuard(latest_day, mtd_total) ==
    IF latest_day.tag = "none" \/ ~IsNumber(mtd_total)
    THEN Raised
    ELSE MaxZero(Frac(mtd_total.n * DaysInMonth(latest_day),
                      mtd_total.den * latest_day.d))

ProjectionDayOneIdentity(latest_day, mtd_total) ==
    IF latest_day.tag = "none" \/ ~IsNumber(mtd_total)
    THEN Num(0)
    ELSE IF latest_day.d = 1
         THEN MaxZero(mtd_total)
         ELSE MaxZero(Frac(mtd_total.n * DaysInMonth(latest_day),
                           mtd_total.den * latest_day.d))

\* daily_avg = mtd_total / elapsed; return max(daily_avg * days_in_month, 0.0)
\* (elapsed = latest_day.day is at least 1, so the "if elapsed" arm is always taken)
month_projection_for(latest_day, mtd_total) ==
    IF latest_day.tag = "none" \/ ~IsNumber(mtd_total)
    THEN Num(0)
    ELSE MaxZero(Frac(mtd_total.n * DaysInMonth(latest_day),
                      mtd_total.den * latest_day.d))

\* equality of two fractions with positive denominators
FracEq(a, b) == a.n * b.den = b.n * a.den

(***************************************************************************)
(* Number formatting and pct_change                                        *)
(***************************************************************************)
Abs(k) == IF k < 0 THEN -k ELSE k

\* round-half-even of the non-negative fraction a/b (b > 0), as round() and
\* the ".0f" format do
RoundHalfEven(a, b) ==
    LET q == a \div b
        r == a % b
    IN IF 2 * r < b THEN q
       ELSE IF 2 * r > b THEN q + 1
       ELSE IF q % 2 = 0 THEN q ELSE q + 1

\* a rendered decimal string without decimals: a minus sign and the digits
Digits(isneg, k) == [neg |-> isneg, mag |-> k]

\* f"{x:,.0f}": the sign of x is kept even when the digits round to 0
FormatF0(x) == Digits(x.n < 0, RoundHalfEven(Abs(x.n), x.den))

\* fmt_number: f"{int(round(x)):,.0f}": the rounded integer is formatted
fmt_number(x) ==
    LET k == RoundHalfEven(Abs(x.n), x.den)
    IN Digits(x.n < 0 /\ k # 0, k)

\* fmt_money: f"${x:,.0f}"
fmt_money(x) == FormatF0(x)

NoPct == [shown |-> FALSE, plus |-> FALSE, neg |-> FALSE, mag |-> 0, raised |-> FALSE]

\* the arithmetic of pct_change raised (TypeError, ZeroDivisionError)
PctRaised == [NoPct EXCEPT !.raised = TRUE]

\* without the "if not base" guard: the division is always attempted
PctChangeNoGuard(curr, base) ==
    IF ~IsNumber(base) \/ ~IsNumber(curr) \/ base.n = 0
    THEN PctRaised
    ELSE LET num0 == (curr.n * base.den - base.n * curr.den) * 100
             den0 == curr.den * base.n
             dn == IF den0 < 0 THEN -num0 ELSE num0
             dd == Abs(den0)
             f == FormatF0(Frac(dn, dd))
         IN [shown |-> TRUE, plus |-> (dn >= 0), neg |-> f.neg, mag |-> f.mag,
             raised |-> FALSE]

\* sign = "+" if delta > 0 else "": a delta of zero gets no sign
PctChangePlusPositive(curr, base) ==
    IF Falsy(base)
    THEN NoPct
    ELSE IF ~IsNumber(base) \/ ~IsNumber(curr)
    THEN PctRaised
    ELSE LET num0 == (curr.n * base.den - base.n * curr.den) * 100
             den0 == curr.den * base.n
             dn == IF den0 < 0 THEN -num0 ELSE num0
             dd == Abs(den0)
             f == FormatF0(Frac(dn, dd))
         IN [shown |-> TRUE, plus |-> (dn > 0),
             neg |-> (f.neg \/ (num0 = 0 /\ base.n < 0)), mag |-> f.mag,
             raised |-> FALSE]

\* pct_change(curr, base): "" when base is falsy, else " ({sign}{delta:.0f}%)";
\* the arithmetic raises TypeError on an operand that is not a number, and a
\* zero difference divided by a negative base is the float -0.0, which is
\* >= 0 and is formatted as "-0"
pct_change(curr, base) ==
    IF Falsy(base)
    THEN NoPct
    ELSE IF ~IsNumber(base) \/ ~IsNumber(curr)
    THEN PctRaised
    ELSE LET num0 == (curr.n * base.den - base.n * curr.den) * 100
             den0 == curr.den * base.n
             dn == IF den0 < 0 THEN -num0 ELSE num0
             dd == Abs(den0)
             f == FormatF0(Frac(dn, dd))
         IN [shown |-> TRUE, plus |-> (dn >= 0),
             neg |-> (f.neg \/ (num0 = 0 /\ base.n < 0)), mag |-> f.mag,
             raised |-> FALSE]

\* the text of a rendered value: the placeholder dash, or digits and a
\* percent annotation
EM_DASH == [dash |-> TRUE, neg |-> FALSE, mag |-> 0, pct |-> NoPct]
Text(digits, p) == [dash |-> FALSE, neg |-> digits.neg, mag |-> digits.mag, pct |-> p]

fmt_or_dash_number(x) == IF IsNumber(x) THEN Text(fmt_number(x), NoPct) ELSE EM_DASH
fmt_or_dash_money(x) == IF IsNumber(x) THEN Text(fmt_money(x), NoPct) ELSE EM_DASH

(***************************************************************************)
(* ISO date strings                                                        *)
(***************************************************************************)
\* d.isoformat()
IsoFormat(dt) == <<dt.y, dt.m, dt.d>>

\* y, m, d = map(int, s.split("-")); date(y, m, d)
ParseIso(s) == Day(s[1], s[2], s[3])

\* a < b on the strings
IsoLess(a, b) ==
    \/ a[1] < b[1]
    \/ a[1] = b[1] /\ a[2] < b[2]
    \/ a[1] = b[1] /\ a[2] = b[2] /\ a[3] < b[3]

\* the later of two date strings
StrMax(a, b) == IF IsoLess(a, b) THEN b ELSE a

\* max(r[0] for r in rows[lo..hi]), lo <= hi; the range is halved so that the
\* evaluation stays shallow
RECURSIVE MaxDateStrIn(_, _, _)
MaxDateStrIn(rows, lo, hi) ==
    IF lo = hi THEN rows[lo][1]
    ELSE LET mid == (lo + hi) \div 2
         IN StrMax(MaxDateStrIn(rows, lo, mid), MaxDateStrIn(rows, mid + 1, hi))

\* max(r[0] for r in rows), rows non-empty
MaxDateStr(rows) == MaxDateStrIn(rows, 1, Len(rows))

\* the date of the last row, as if the rows always came sorted by day
LatestOfLastRow(rows) ==
    IF Len(rows) = 0 THEN NoneDay
    ELSE ParseIso(rows[Len(rows)][1])

\* the tail of detect_latest_day: the latest date among the rows, or None
LatestOfRows(rows) ==
    IF Len(rows) = 0 THEN NoneDay
    ELSE ParseIso(MaxDateStr(rows))

\* sum(r[1] for r in rows[lo..hi]); the range is halved so that the
\* evaluation stays shallow
RECURSIVE SumColumnIn(_, _, _)
SumColumnIn(rows, lo, hi) ==
    IF hi < lo THEN 0
    ELSE IF lo = hi THEN rows[lo][2]
    ELSE LET mid == (lo + hi) \div 2
         IN SumColumnIn(rows, lo, mid) + SumColumnIn(rows, mid + 1, hi)

\* sum(r[1] for r in rows)
SumColumn(rows) == SumColumnIn(rows, 1, Len(rows))

SumRowsOrNone(resp) ==
    IF resp.missing \/ Len(resp.rows) = 0 THEN None
    ELSE Num(SumColumn(resp.rows))

\* float(sum(r[1] for r in (data.get("rows") or []))) on a response whose
\* "rows" key may be missing
SumRows(resp) ==
    IF resp.missing THEN Num(0) ELSE Num(SumColumn(resp.rows))

(***************************************************************************)
(* State                                                                   *)
(***************************************************************************)
VARIABLES
    variant,        \* which script runs: "views" (views_kpi_poster.py),
                    \* "revenue" (adsense_kpi_poster.py) or "combined" (main.py)
    today,          \* date.today()
    tokens,         \* the token store, in file order: <<[label, refresh_token]>>
    backend,        \* per label, the rows the analytics backend holds
    env,            \* the required settings as require_env finds them
    store,          \* what the token store file is: an object of labels (tokens),
                    \* another JSON value, not JSON, or missing
    exit_code,      \* the exit status of the process, once it has ended
    pc,             \* position of main()
    idx,            \* index in tokens / labels_order of the current channel
    metric,         \* the metric block main() is in
    at,             \* main()'s local access token
    cur,            \* main()'s locals of the current channel, per metric:
                    \* latest, y, mtd, last
    per_chan,       \* the result mapping
    global_latest,  \* views variant: the global latest finalized day
    faults,         \* failed network calls so far
    requests,       \* every network call issued, in order, with its outcome
    blocks,         \* the rendered report
    delivered,      \* what the posting of the report returned
    fn_call,        \* a direct call of one function: its name and arguments
    fn_ret          \* and what it returned

fnVars == <<fn_call, fn_ret>>
vars == <<variant, today, tokens, backend, env, store, exit_code, pc, idx, metric, at, cur, per_chan,
          global_latest, faults, requests, blocks, delivered, fn_call, fn_ret>>

(***************************************************************************)
(* Bounds and inputs                                                       *)
(***************************************************************************)
\* failed network calls in one run
MaxFaults == 2
\* the largest per-day value the backend holds
MaxBase == 2
\* how many days before today the backend's rows start
DataSpan == 80
\* the largest partial-month total given to month_projection_for directly
MaxTotal == 4
\* the longest row list given to sum_metric directly
MaxRows == 3
MaxKeys == 3

\* YT_LATEST_PAD_DAYS default
LATEST_PAD_DAYS == 2

Labels == <<"A", "B">>
LabelSet == {Labels[k] : k \in 1..Len(Labels)}
Todays == {Day(2025, 10, 16), Day(2025, 1, 2)}

NoToken == "None"
AccessToken == "access_token"

\* what the backend holds for a channel: rows for every day from
\* today - DataSpan to today - lag (no rows at all when has_rows is FALSE),
\* the value of a day being base or 2 * base
Datasets ==
    {[has_rows |-> FALSE, lag |-> 0, base |-> 0]}
    \cup {[has_rows |-> TRUE, lag |-> l, base |-> b] : l \in 1..2, b \in {0, MaxBase}}

ValueOn(ds, ord) == ds.base * ((ord % 2) + 1)

Max2(a, b) == IF a < b THEN b ELSE a
Min2(a, b) == IF a < b THEN a ELSE b

\* the rows [dateString, value] the analytics endpoint returns for a channel
\* and a range of ISO dates
BackendRows(label, start_date, end_date) ==
    LET ds == backend[label]
        lo == Max2(ToOrdinal(ParseIso(start_date)), ToOrdinal(today) - DataSpan)
        hi == Min2(ToOrdinal(ParseIso(end_date)), ToOrdinal(today) - ds.lag)
    IN IF ~ds.has_rows \/ hi < lo THEN <<>>
       ELSE [k \in 1..(hi - lo + 1) |->
                <<IsoFormat(FromOrdinal(lo + k - 1)), ValueOn(ds, lo + k - 1)>>]

Response(label, start_date, end_date) ==
    [missing |-> FALSE, rows |-> BackendRows(label, start_date, end_date)]

(***************************************************************************)
(* The result mapping                                                      *)
(***************************************************************************)
\* the figures of one metric family: rev_latest / views_latest, y_*, mtd_*,
\* last_month_*
NoFamily == [latest |-> NoneDay, y |-> None, mtd |-> None, last_month |-> None]

NoLocals == [rev |-> NoFamily, views |-> NoFamily]

\* a label with no entry yet: every .get() on it gives None
NoEntry == [present |-> FALSE, access_token |-> NoToken,
            rev |-> NoFamily, views |-> NoFamily,
            mtd_views_global |-> None, reason |-> "None"]

\* per_chan[label] = {"views_latest": None} / {"rev_latest": None} /
\* {"rev_latest": None, "views_latest": None}: every other key is absent and
\* reads as None
SkippedEntry == [NoEntry EXCEPT !.present = TRUE]

\* per_chan[label] = {...}: the views variant also stores the access token,
\* "mtd_views_global": None and "reason": None (channel_id and channel_title
\* are stored and never read again)
FullEntry(v, tok, locals) ==
    [present |-> TRUE,
     access_token |-> IF v = "views" THEN tok ELSE NoToken,
     rev |-> locals.rev, views |-> locals.views,
     mtd_views_global |-> None, reason |-> "None"]

\* a network call as issued: what it is for, its parameters, and how it
\* came back (nrows: the rows of an analytics answer)
Req(kind, purpose, label, pass, m, start_date, end_date, currency, timeout, outcome, nrows) ==
    [kind |-> kind, purpose |-> purpose, label |-> label, pass |-> pass,
     metric |-> m, start_date |-> start_date, end_date |-> end_date,
     currency |-> currency, timeout |-> timeout, outcome |-> outcome, nrows |-> nrows]

NoDate == <<0, 0, 0>>

\* the channels taken last to first
LabelFromEnd == tokens[Len(tokens) + 1 - idx].label

Label == tokens[idx].label

N == Len(tokens)

\* the first metric block of the variant
FirstMetric(v) == IF v = "views" THEN "views" ELSE "estimatedRevenue"

\* the family of the metric block
FamilyOf(m) == IF m = "views" THEN "views" ELSE "rev"

\* the report before it is built
NoSection == [title_day |-> NoneDay,
              header_y |-> EM_DASH, y_lines |-> <<>>,
              header_proj |-> EM_DASH, proj_lines |-> <<>>,
              tot_y |-> None, tot_mtd |-> None, tot_last |-> None, tot_proj |-> None]
NoBlocks == [built |-> FALSE, rev |-> NoSection, views |-> NoSection]

(***************************************************************************)
(* Initial states                                                          *)
(***************************************************************************)
FnIdle == [fn |-> "none", day |-> NoneDay, total |-> None,
           resp |-> [missing |-> TRUE, rows |-> <<>>],
           file |-> [kind |-> "missing", content |-> <<>>],
           curr |-> None, base |-> None]
FnPending == [tag |-> "pending", n |-> 0, den |-> 1]

\* a required setting: set, missing, or still the placeholder; the webhook
\* URL, when set, is a Slack webhook ("slack") or some other URL ("other")
GoodEnv == [client_id |-> "set", client_secret |-> "set", webhook |-> "slack"]

\* the start-ups other than the good one: one setting missing or a
\* placeholder, a webhook that is not a Slack URL, a token store that is
\* missing, not JSON, or not an object
OtherStarts ==
    {<<[GoodEnv EXCEPT ![f] = b], "object">> :
        f \in {"client_id", "client_secret", "webhook"}, b \in {"missing", "placeholder"}}
    \cup {<<[GoodEnv EXCEPT !.webhook = "other"], "object">>}
    \cup {<<GoodEnv, st>> : st \in {"missing", "unparsable", "not_object"}}

\* a run early in March of a leap year: the latest day is 1 March or
\* 29 February
LeapToday == Day(2024, 3, 2)

AllTokens == [k \in 1..Len(Labels) |-> [label |-> Labels[k], refresh_token |-> TRUE]]
FullBackend == [l \in LabelSet |-> [has_rows |-> TRUE, lag |-> 1, base |-> MaxBase]]

InitPipe(v) ==
    /\ variant = v
    /\ \/ /\ env = GoodEnv
          /\ store = "object"
          /\ today \in Todays
          /\ tokens \in {[k \in 1..Len(Labels) |->
                             [label |-> Labels[k], refresh_token |-> f[k]]] :
                            f \in [1..Len(Labels) -> BOOLEAN]}
          /\ backend \in [LabelSet -> Datasets]
       \/ /\ \E st \in OtherStarts : env = st[1] /\ store = st[2]
          /\ today = Day(2025, 10, 16)
          /\ tokens = AllTokens
          /\ backend = FullBackend
       \/ /\ env = GoodEnv
          /\ store = "object"
          /\ today = Day(2025, 10, 16)
          /\ tokens = <<>>
          /\ backend = FullBackend
       \/ /\ env = GoodEnv
          /\ store = "object"
          /\ today = LeapToday
          /\ tokens = AllTokens
          /\ backend \in [LabelSet -> {ds \in Datasets : ds.has_rows /\ ds.base = MaxBase}]
    /\ exit_code = "running"
    /\ pc = "start"
    /\ idx = 0
    /\ metric = FirstMetric(v)
    /\ at = NoToken
    /\ cur = NoLocals
    /\ per_chan = [l \in LabelSet |-> NoEntry]
    /\ global_latest = NoneDay
    /\ faults = 0
    /\ requests = <<>>
    /\ blocks = NoBlocks
    /\ delivered = "None"
    /\ fn_call = FnIdle
    /\ fn_ret = FnPending

Init == InitPipe("views")

(***************************************************************************)
(* Network calls: what each can come back with                             *)
(***************************************************************************)
\* the token endpoint: a token, a non-2xx status, a body without
\* access_token, or a transport exception
TokenOutcomes == {"ok", "http_error", "no_access_token", "exception"}
\* the identity endpoint
IdentityOutcomes == {"ok", "http_error", "exception"}
\* the analytics endpoint: rows, HTTP 403, another HTTP error status, or an
\* exception that is not requests.HTTPError (timeout, connection error,
\* a body that is not JSON)
AnalyticsOutcomes == {"ok", "http_403", "http_error", "exception"}
\* the webhook
WebhookOutcomes == {"ok", "non_2xx", "exception"}

IsHTTPError(o) == o \in {"http_403", "http_error"}

\* a failed call uses up one of the run's faults
Outcome(o) ==
    /\ (o # "ok") => faults < MaxFaults
    /\ faults' = IF o = "ok" THEN faults ELSE faults + 1

Issue(r) == requests' = Append(requests, r)

\* requests.post(TOKEN_URL, ...): main.py passes no timeout (0)
TokenReq(pass, o) ==
    Req("token", "token", Label, pass, "", NoDate, NoDate, FALSE,
        IF variant = "combined" THEN 0 ELSE 60, o, 0)

\* requests.get(DATA_API, ...)
IdentityReq(o) ==
    Req("identity", "identity", Label, "fetch", "", NoDate, NoDate, FALSE,
        IF variant = "combined" THEN 0 ELSE 30, o, 0)

\* whether yt_query sends a currency parameter: never in the views variant,
\* for estimatedRevenue only in the revenue variant, always in main.py
SendsCurrency(v, m) ==
    IF v = "views" THEN FALSE
    ELSE IF v = "revenue" THEN m = "estimatedRevenue"
    ELSE TRUE

\* yt_query(...) as issued by the variant for the current channel
AnalyticsReq(purpose, pass, start_day, end_day, o) ==
    Req("analytics", purpose, Label, pass, metric,
        IsoFormat(start_day), IsoFormat(end_day),
        SendsCurrency(variant, metric),
        IF variant = "combined" THEN 0 ELSE 60,
        o,
        IF o = "ok"
        THEN Len(BackendRows(Label, IsoFormat(start_day), IsoFormat(end_day)))
        ELSE 0)

(***************************************************************************)
(* main(): start-up and the fetch pass                                     *)
(***************************************************************************)
inputs == <<variant, today, tokens, backend, env, store>>

\* require_env(name, placeholder_fragments): whether it raises RuntimeError
RequireEnvRaises(val) == val \in {"missing", "placeholder"}

\* json.loads on the text of an object, given as its members in file order:
\* a dict keeps a key at the place of its first occurrence and takes the
\* value of its last one
JsonObject(content) ==
    LET firsts == {k \in 1..Len(content) :
                     \A j \in 1..(k - 1) : content[j].label # content[k].label}
        nth(i) == CHOOSE k \in firsts : Cardinality({j \in firsts : j < k}) = i - 1
        last(l) == CHOOSE k \in 1..Len(content) :
                     /\ content[k].label = l
                     /\ \A j \in (k + 1)..Len(content) : content[j].label # l
    IN [i \in 1..Cardinality(firsts) |-> content[last(content[nth(i)].label)]]

\* without the emptiness test: an empty object is returned as it is
LoadTokensNoEmptyCheck(kind, content) ==
    IF kind = "missing" THEN [raised |-> "FileNotFoundError", data |-> <<>>]
    ELSE IF kind = "unparsable" THEN [raised |-> "JSONDecodeError", data |-> <<>>]
    ELSE IF kind # "object" THEN [raised |-> "ValueError", data |-> <<>>]
    ELSE [raised |-> "None", data |-> JsonObject(content)]

\* load_tokens_file(path) on a file of the given kind and, for an object,
\* its members: what it raises, or the mapping it returns
load_tokens_file(kind, content) ==
    IF kind = "missing" THEN [raised |-> "FileNotFoundError", data |-> <<>>]
    ELSE IF kind = "unparsable" THEN [raised |-> "JSONDecodeError", data |-> <<>>]
    ELSE IF kind # "object" \/ Len(JsonObject(content)) = 0
         THEN [raised |-> "ValueError", data |-> <<>>]
    ELSE [raised |-> "None", data |-> JsonObject(content)]

\* the exception the start of main() raises, if any: the three require_env
\* calls (on the environment as hydrate_oauth_client_from_json left it),
\* then load_tokens_file
StartupError ==
    IF RequireEnvRaises(env.client_id) \/ RequireEnvRaises(env.client_secret)
       \/ RequireEnvRaises(env.webhook)
    THEN "RuntimeError"
    ELSE load_tokens_file(store, tokens).raised

\* require_env(...) x 3; tokens = load_tokens_file(TOKENS_FILE);
\* labels_order = list(tokens.keys()); per_chan = {}
Startup ==
    /\ pc = "start"
    /\ IF StartupError # "None"
       THEN pc' = "fatal" /\ UNCHANGED idx
       ELSE pc' = "loop" /\ idx' = 1
    /\ UNCHANGED <<inputs, metric, at, cur, per_chan, global_latest, faults,
                   requests, blocks, delivered, exit_code, fnVars>>

\* the end of a metric block with the figures it got: main.py goes on to its
\* views block, and otherwise the iteration ends and the entry is stored
EndBlock(family) ==
    LET locals == [cur EXCEPT ![FamilyOf(metric)] = family]
    IN /\ cur' = locals
       /\ IF variant = "combined" /\ metric = "estimatedRevenue"
          THEN /\ metric' = "views"
               /\ pc' = "detect"
               /\ UNCHANGED <<idx, per_chan>>
          ELSE /\ per_chan' = [per_chan EXCEPT ![Label] = FullEntry(variant, at, locals)]
               /\ metric' = FirstMetric(variant)
               /\ idx' = idx + 1
               /\ pc' = "loop"

\* an exception nothing in main() catches: it reaches the handler of __main__
Abort ==
    /\ pc' = "fatal"
    /\ UNCHANGED <<idx, metric, cur, per_chan>>

\* for label, obj in tokens.items(): ... if not rf: skip
NextChannel ==
    /\ pc = "loop"
    /\ IF idx > N
       THEN /\ pc' = IF variant = "views" THEN "global" ELSE "sheets"
            /\ UNCHANGED <<idx, per_chan>>
       ELSE IF ~tokens[idx].refresh_token
            THEN /\ per_chan' = [per_chan EXCEPT ![Label] = SkippedEntry]
                 /\ idx' = idx + 1
                 /\ pc' = "loop"
            ELSE /\ pc' = "token"
                 /\ UNCHANGED <<idx, per_chan>>
    /\ UNCHANGED <<inputs, metric, at, cur, global_latest, faults, requests,
                   blocks, delivered, exit_code, fnVars>>

\* without the "continue" after a failed token exchange
GetAccessTokenNoSkip ==
    /\ pc = "token"
    /\ \E o \in TokenOutcomes :
        /\ Outcome(o)
        /\ Issue(TokenReq("fetch", o))
        /\ at' = IF o = "ok" THEN AccessToken ELSE NoToken
        /\ pc' = "identity"
        /\ UNCHANGED <<idx, per_chan>>
    /\ UNCHANGED <<inputs, metric, cur, global_latest, blocks, delivered, exit_code, fnVars>>

\* at = get_access_token(rf), any exception caught: the channel is skipped
GetAccessToken ==
    /\ pc = "token"
    /\ \E o \in TokenOutcomes :
        /\ Outcome(o)
        /\ Issue(TokenReq("fetch", o))
        /\ IF o = "ok"
           THEN /\ at' = AccessToken
                /\ pc' = "identity"
                /\ UNCHANGED <<idx, per_chan>>
           ELSE /\ per_chan' = [per_chan EXCEPT ![Label] = SkippedEntry]
                /\ idx' = idx + 1
                /\ pc' = "loop"
                /\ UNCHANGED at
    /\ UNCHANGED <<inputs, metric, cur, global_latest, blocks, delivered, exit_code, fnVars>>

\* ch_id, ch_title = channel_identity(at), any exception caught; then the
\* locals of the metric blocks start as None
ChannelIdentity ==
    /\ pc = "identity"
    /\ \E o \in IdentityOutcomes :
        /\ Outcome(o)
        /\ Issue(IdentityReq(o))
    /\ cur' = NoLocals
    /\ pc' = "detect"
    /\ UNCHANGED <<inputs, idx, metric, at, per_chan, global_latest, blocks,
                   delivered, exit_code, fnVars>>

\* detect_latest_day: the end of the window and its two lookbacks
DetectEnd ==
    IF variant = "views"
    THEN AddDays(today, Max2(0, LATEST_PAD_DAYS))
    ELSE AddDays(today, -1)

DetectLookback(second) ==
    IF variant = "views" THEN (IF second THEN 75 ELSE 45)
    ELSE (IF second THEN 30 ELSE 14)

\* what follows a detection that returned: the latest day, or the block ends
\* with every figure None
AfterDetect(rows) ==
    LET latest == LatestOfRows(rows)
    IN IF latest.tag = "none"
       THEN EndBlock(NoFamily)
       ELSE /\ cur' = [cur EXCEPT ![FamilyOf(metric)] = [NoFamily EXCEPT !.latest = latest]]
            /\ pc' = "sum_y"
            /\ UNCHANGED <<idx, metric, per_chan>>

\* whether detect_latest_day issues its second query after this outcome of
\* the first: the views variant on an HTTP error, the others on no rows
DetectRetries(v, o, rows) ==
    IF v = "views" THEN IsHTTPError(o)
    ELSE o = "ok" /\ Len(rows) = 0

\* detect_latest_day, first query
DetectFirstQuery ==
    /\ pc = "detect"
    /\ LET end_day == DetectEnd
           start_day == AddDays(end_day, -DetectLookback(FALSE))
           rows == BackendRows(Label, IsoFormat(start_day), IsoFormat(end_day))
       IN \E o \in AnalyticsOutcomes :
           /\ Outcome(o)
           /\ Issue(AnalyticsReq("detect", "fetch", start_day, end_day, o))
           /\ IF o = "exception" THEN Abort
              ELSE IF DetectRetries(variant, o, rows)
                   THEN /\ pc' = "detect_retry"
                        /\ UNCHANGED <<idx, metric, cur, per_chan>>
                   ELSE IF IsHTTPError(o) THEN EndBlock(NoFamily)
                   ELSE AfterDetect(rows)
    /\ UNCHANGED <<inputs, at, global_latest, blocks, delivered, exit_code, fnVars>>

\* detect_latest_day, second query with the wider window
DetectSecondQuery ==
    /\ pc = "detect_retry"
    /\ LET end_day == DetectEnd
           start_day == AddDays(end_day, -DetectLookback(TRUE))
       IN \E o \in AnalyticsOutcomes :
           /\ Outcome(o)
           /\ Issue(AnalyticsReq("detect_retry", "fetch", start_day, end_day, o))
           /\ IF o = "exception" THEN Abort
              ELSE IF IsHTTPError(o) THEN EndBlock(NoFamily)
              ELSE AfterDetect(BackendRows(Label, IsoFormat(start_day), IsoFormat(end_day)))
    /\ UNCHANGED <<inputs, at, global_latest, blocks, delivered, exit_code, fnVars>>

\* sum_metric(access_token, start, end, metric) for the current channel, the
\* query having succeeded
sum_metric(start_date, end_date) == SumRows(Response(Label, start_date, end_date))

\* month_first, prev_month_last, prev_month_first of the channel's latest day
MonthFirst(latest) == ReplaceDay(latest, 1)
PrevMonthLast(latest) == AddDays(MonthFirst(latest), -1)
\* the previous month taken to be the 30 days up to its last day
PrevMonthFirstThirty(latest) == AddDays(PrevMonthLast(latest), -29)

PrevMonthFirst(latest) == ReplaceDay(PrevMonthLast(latest), 1)

\* the locals of the metric block main() is in
Fam == cur[FamilyOf(metric)]

\* an HTTP error that discards what the block had computed
FetchSumDiscards(start_day, end_day, field, after) ==
    \E o \in AnalyticsOutcomes :
        /\ Outcome(o)
        /\ Issue(AnalyticsReq(field, "fetch", start_day, end_day, o))
        /\ IF o = "exception" THEN Abort
           ELSE IF IsHTTPError(o) THEN EndBlock(NoFamily)
           ELSE LET v == sum_metric(IsoFormat(start_day), IsoFormat(end_day))
                    family == [Fam EXCEPT ![field] = v]
                IN IF after = "end" THEN EndBlock(family)
                   ELSE /\ cur' = [cur EXCEPT ![FamilyOf(metric)] = family]
                        /\ pc' = after
                        /\ UNCHANGED <<idx, metric, per_chan>>

\* one of the three sum_metric calls of the fetch pass: an HTTP error ends
\* the block with the figures computed so far
FetchSum(start_day, end_day, field, after) ==
    \E o \in AnalyticsOutcomes :
        /\ Outcome(o)
        /\ Issue(AnalyticsReq(field, "fetch", start_day, end_day, o))
        /\ IF o = "exception" THEN Abort
           ELSE IF IsHTTPError(o) THEN EndBlock(Fam)
           ELSE LET v == sum_metric(IsoFormat(start_day), IsoFormat(end_day))
                    family == [Fam EXCEPT ![field] = v]
                IN IF after = "end" THEN EndBlock(family)
                   ELSE /\ cur' = [cur EXCEPT ![FamilyOf(metric)] = family]
                        /\ pc' = after
                        /\ UNCHANGED <<idx, metric, per_chan>>

\* y = sum_metric(at, latest, latest, metric)
SumYesterday ==
    /\ pc = "sum_y"
    /\ FetchSum(Fam.latest, Fam.latest, "y", "sum_mtd")
    /\ UNCHANGED <<inputs, at, global_latest, blocks, delivered, exit_code, fnVars>>

\* mtd = sum_metric(at, month_first, latest, metric)
SumMonthToDate ==
    /\ pc = "sum_mtd"
    /\ FetchSum(MonthFirst(Fam.latest), Fam.latest, "mtd", "sum_last")
    /\ UNCHANGED <<inputs, at, global_latest, blocks, delivered, exit_code, fnVars>>

\* last = sum_metric(at, prev_month_first, prev_month_last, metric)
SumLastMonth ==
    /\ pc = "sum_last"
    /\ FetchSum(PrevMonthFirst(Fam.latest), PrevMonthLast(Fam.latest), "last_month", "end")
    /\ UNCHANGED <<inputs, at, global_latest, blocks, delivered, exit_code, fnVars>>

(***************************************************************************)
(* Views variant: the global latest day and the reconcile pass             *)
(***************************************************************************)
\* max(a, b) on dates
LaterDay(a, b) == IF DayLess(a, b) THEN b ELSE a

EarlierDay(a, b) == IF DayLess(b, a) THEN b ELSE a

\* max(candidates) over the views_latest of the first k entries that have
\* one, or None when there is none
RECURSIVE MaxLatest(_, _)
MaxLatest(pch, k) ==
    IF k = 0 THEN NoneDay
    ELSE LET rest == MaxLatest(pch, k - 1)
             mine == pch[tokens[k].label].views.latest
         IN IF mine.tag = "none" THEN rest
            ELSE IF rest.tag = "none" THEN mine
            ELSE LaterDay(rest, mine)

RECURSIVE MinLatest(_, _)
MinLatest(pch, k) ==
    IF k = 0 THEN NoneDay
    ELSE LET rest == MinLatest(pch, k - 1)
             mine == pch[tokens[k].label].views.latest
         IN IF mine.tag = "none" THEN rest
            ELSE IF rest.tag = "none" THEN mine
            ELSE EarlierDay(rest, mine)

GlobalLatestMin(pch) == MinLatest(pch, N)

\* latest_candidates = [...]; global_latest = max(latest_candidates) if
\* latest_candidates else None
GlobalLatestOf(pch) == MaxLatest(pch, N)

\* (YT_DEBUG_TAIL is off by default: print_api_tail_for_views is not run)
ComputeGlobalLatest ==
    /\ pc = "global"
    /\ global_latest' = GlobalLatestOf(per_chan)
    /\ IF GlobalLatestOf(per_chan).tag = "none"
       THEN pc' = "render" /\ UNCHANGED idx
       ELSE pc' = "reconcile" /\ idx' = 1
    /\ UNCHANGED <<inputs, metric, at, cur, per_chan, faults, requests,
                   blocks, delivered, exit_code, fnVars>>

\* d["reason"] = d.get("reason") or "no_access_token"
ReasonOr(d, r) == IF d.reason = "None" THEN r ELSE d.reason

\* the entry of a channel that cannot be recomputed for want of a token
NoTokenEntry(d) ==
    [d EXCEPT !.present = TRUE, !.mtd_views_global = None,
              !.reason = ReasonOr(d, "no_access_token")]

\* for label in labels_order: d = per_chan.setdefault(label, {}); at =
\* d.get("access_token"); without a token and without a refresh token the
\* channel is marked and left
ReconcileNext ==
    /\ pc = "reconcile"
    /\ IF idx > N
       THEN /\ pc' = "render"
            /\ UNCHANGED <<idx, at, per_chan>>
       ELSE LET d == per_chan[Label]
            IN /\ at' = d.access_token
               /\ IF d.access_token # NoToken
                  THEN /\ pc' = "r_sum"
                       /\ per_chan' = [per_chan EXCEPT ![Label].present = TRUE]
                       /\ UNCHANGED idx
                  ELSE IF tokens[idx].refresh_token
                       THEN /\ pc' = "r_token"
                            /\ per_chan' = [per_chan EXCEPT ![Label].present = TRUE]
                            /\ UNCHANGED idx
                       ELSE /\ per_chan' = [per_chan EXCEPT ![Label] = NoTokenEntry(d)]
                            /\ idx' = idx + 1
                            /\ pc' = "reconcile"
    /\ UNCHANGED <<inputs, metric, cur, global_latest, faults, requests,
                   blocks, delivered, exit_code, fnVars>>

\* without the "continue": the recompute is attempted without a token
ReconcileTokenQueriesAnyway ==
    /\ pc = "r_token"
    /\ \E o \in TokenOutcomes :
        /\ Outcome(o)
        /\ Issue(TokenReq("reconcile", o))
        /\ at' = IF o = "ok" THEN AccessToken ELSE NoToken
        /\ per_chan' = IF o = "ok"
                       THEN [per_chan EXCEPT ![Label].access_token = AccessToken]
                       ELSE [per_chan EXCEPT ![Label] = NoTokenEntry(per_chan[Label])]
        /\ pc' = "r_sum"
        /\ UNCHANGED idx
    /\ UNCHANGED <<inputs, metric, cur, global_latest, blocks, delivered, exit_code, fnVars>>

\* at = get_access_token(rf) in the reconcile pass, any exception caught
ReconcileToken ==
    /\ pc = "r_token"
    /\ \E o \in TokenOutcomes :
        /\ Outcome(o)
        /\ Issue(TokenReq("reconcile", o))
        /\ IF o = "ok"
           THEN /\ at' = AccessToken
                /\ per_chan' = [per_chan EXCEPT ![Label].access_token = AccessToken]
                /\ pc' = "r_sum"
                /\ UNCHANGED idx
           ELSE /\ at' = NoToken
                /\ per_chan' = [per_chan EXCEPT ![Label] = NoTokenEntry(per_chan[Label])]
                /\ idx' = idx + 1
                /\ pc' = "reconcile"
    /\ UNCHANGED <<inputs, metric, cur, global_latest, blocks, delivered, exit_code, fnVars>>

GlobalRangeOwnDay(label) ==
    LET own == per_chan[label].views.latest
    IN IF own.tag = "none" THEN <<ReplaceDay(global_latest, 1), global_latest>>
       ELSE <<ReplaceDay(own, 1), own>>

\* the range of the recompute: [month_first_global, global_latest]
GlobalRange(label) == <<ReplaceDay(global_latest, 1), global_latest>>

\* a failed recompute that clears the figure and records no reason
ReconciledEntryNoReason(d, o, total) ==
    IF o = "ok"
    THEN [d EXCEPT !.mtd_views_global = total]
    ELSE [d EXCEPT !.mtd_views_global = None]

\* the entry after the recompute came back
ReconciledEntry(d, o, total) ==
    IF o = "ok"
    THEN [d EXCEPT !.mtd_views_global = total]
    ELSE [d EXCEPT !.mtd_views_global = None,
                   !.reason = IF o = "http_403" THEN "403_forbidden" ELSE "error"]

\* mtd_to_global = sum_metric(at, month_first_global, global_latest, "views")
ReconcileSum ==
    /\ pc = "r_sum"
    /\ LET range == GlobalRange(Label)
       IN \E o \in AnalyticsOutcomes :
           /\ Outcome(o)
           /\ Issue(AnalyticsReq("mtd_global", "reconcile", range[1], range[2], o))
           /\ IF o = "exception"
              THEN /\ pc' = "fatal"
                   /\ UNCHANGED <<idx, per_chan>>
              ELSE /\ per_chan' =
                        [per_chan EXCEPT ![Label] =
                            ReconciledEntry(@, o,
                                sum_metric(IsoFormat(range[1]), IsoFormat(range[2])))]
                   /\ idx' = idx + 1
                   /\ pc' = "reconcile"
    /\ UNCHANGED <<inputs, metric, at, cur, global_latest, blocks, delivered, exit_code, fnVars>>

(***************************************************************************)
(* Rendering                                                               *)
(***************************************************************************)
\* the labels last to first
LabelsReversed == [k \in 1..N |-> tokens[N + 1 - k].label]

labels_order == [k \in 1..N |-> tokens[k].label]

Line(label, text) == [label |-> label, text |-> text]

\* a + b on numbers
Plus(a, b) == Frac(a.n * b.den + b.n * a.den, a.den * b.den)

WithPct(text, p) == [text EXCEPT !.pct = p]

\* pct_change(tot_proj or 0.0, tot_last or 0.0) if (tot_proj is not None and
\* tot_last) else ""
HeaderPct(tot_proj, tot_last) ==
    IF IsNumber(tot_proj) /\ IsNumber(tot_last) /\ tot_last.n # 0
    THEN pct_change(tot_proj, tot_last)
    ELSE NoPct

Acc0 == [y_lines |-> <<>>, proj_lines |-> <<>>,
         tot_y |-> Num(0), tot_mtd |-> Num(0), tot_last |-> Num(0),
         latest_candidates |-> <<>>]

\* "if not ch_mtd_glob" in place of "ch_mtd_glob is None"
ViewsProjLineFalsy(d, glatest) ==
    IF glatest.tag = "none" THEN EM_DASH
    ELSE IF ~IsNumber(d.mtd_views_global) \/ d.mtd_views_global.n = 0 THEN EM_DASH
    ELSE LET ch_proj == month_projection_for(glatest, d.mtd_views_global)
         IN Text(fmt_number(ch_proj), pct_change(ch_proj, d.views.last_month))

\* the projection line of one channel in build_views_sections
ViewsProjLine(d, glatest) ==
    IF glatest.tag = "none" THEN EM_DASH
    ELSE IF ~IsNumber(d.mtd_views_global) THEN EM_DASH
    ELSE LET ch_proj == month_projection_for(glatest, d.mtd_views_global)
         IN Text(fmt_number(ch_proj), pct_change(ch_proj, d.views.last_month))

\* the loop of build_views_sections over the first k labels
RECURSIVE ViewsLoop(_, _, _, _)
ViewsLoop(labels, pch, glatest, k) ==
    IF k = 0 THEN Acc0
    ELSE LET a == ViewsLoop(labels, pch, glatest, k - 1)
             d == pch[labels[k]]
             has_y == d.views.latest.tag # "none" /\ IsNumber(d.views.y)
             has_proj == glatest.tag # "none" /\ IsNumber(d.mtd_views_global)
         IN [y_lines |-> Append(a.y_lines,
                 Line(labels[k], IF has_y THEN Text(fmt_number(d.views.y), NoPct)
                                 ELSE EM_DASH)),
             proj_lines |-> Append(a.proj_lines,
                 Line(labels[k], ViewsProjLine(d, glatest))),
             tot_y |-> IF has_y THEN Plus(a.tot_y, d.views.y) ELSE a.tot_y,
             tot_mtd |-> IF has_proj THEN Plus(a.tot_mtd, d.mtd_views_global)
                         ELSE a.tot_mtd,
             tot_last |-> IF has_proj /\ IsNumber(d.views.last_month)
                          THEN Plus(a.tot_last, d.views.last_month)
                          ELSE a.tot_last,
             latest_candidates |-> <<>>]

\* build_views_sections(labels, per_chan, global_latest): the section it
\* renders, with the totals it computed
build_views_sections(labels, pch, glatest) ==
    LET a == ViewsLoop(labels, pch, glatest, Len(labels))
        tot_proj == IF glatest.tag # "none"
                    THEN month_projection_for(glatest, a.tot_mtd)
                    ELSE None
        tot_y == IF glatest.tag = "none" THEN None ELSE a.tot_y
        tot_last == IF glatest.tag = "none" THEN None ELSE a.tot_last
    IN [title_day |-> glatest,
        header_y |-> fmt_or_dash_number(tot_y),
        y_lines |-> a.y_lines,
        header_proj |-> WithPct(fmt_or_dash_number(tot_proj), HeaderPct(tot_proj, tot_last)),
        proj_lines |-> a.proj_lines,
        tot_y |-> tot_y, tot_mtd |-> a.tot_mtd, tot_last |-> tot_last,
        tot_proj |-> tot_proj]

\* max(latest_candidates), candidates non-empty
RECURSIVE MaxDayOf(_, _)
MaxDayOf(days, k) ==
    IF k = 1 THEN days[1] ELSE LaterDay(MaxDayOf(days, k - 1), days[k])

\* value_formatter: fmt_money or fmt_number
Format(formatter, x) == IF formatter = "fmt_money" THEN fmt_money(x) ELSE fmt_number(x)

\* the loop over the first k labels that build_section_lists (main.py) and
\* build_revenue_sections (adsense_kpi_poster.py) share: each channel's lines
\* come from its own latest day and its own month-to-date
RECURSIVE SectionLoop(_, _, _, _, _)
SectionLoop(labels, pch, family, formatter, k) ==
    IF k = 0 THEN Acc0
    ELSE LET a == SectionLoop(labels, pch, family, formatter, k - 1)
             f == pch[labels[k]][family]
             latest == f.latest
             has_y == latest.tag # "none" /\ IsNumber(f.y)
             has_proj == latest.tag # "none" /\ IsNumber(f.mtd)
             ch_proj == month_projection_for(latest, f.mtd)
         IN [y_lines |-> Append(a.y_lines,
                 Line(labels[k], IF has_y THEN Text(Format(formatter, f.y), NoPct)
                                 ELSE EM_DASH)),
             proj_lines |-> Append(a.proj_lines,
                 Line(labels[k],
                      IF has_proj
                      THEN Text(Format(formatter, ch_proj), pct_change(ch_proj, f.last_month))
                      ELSE EM_DASH)),
             tot_y |-> IF has_y THEN Plus(a.tot_y, f.y) ELSE a.tot_y,
             tot_mtd |-> IF has_proj THEN Plus(a.tot_mtd, f.mtd) ELSE a.tot_mtd,
             tot_last |-> IF has_proj /\ IsNumber(f.last_month)
                          THEN Plus(a.tot_last, f.last_month)
                          ELSE a.tot_last,
             latest_candidates |-> IF has_proj THEN Append(a.latest_candidates, latest)
                                   ELSE a.latest_candidates]

\* global_latest = max(latest_candidates) if latest_candidates else None
SectionLatest(a) ==
    IF Len(a.latest_candidates) > 0
    THEN MaxDayOf(a.latest_candidates, Len(a.latest_candidates))
    ELSE NoneDay

\* build_revenue_sections(labels, per_chan); the "Yesterday date" context
\* line is not modelled
build_revenue_sections(labels, pch) ==
    LET a == SectionLoop(labels, pch, "rev", "fmt_money", Len(labels))
        has_any == Len(a.latest_candidates) > 0
        tot_proj == IF has_any THEN month_projection_for(SectionLatest(a), a.tot_mtd)
                    ELSE None
        tot_y == IF has_any THEN a.tot_y ELSE None
        tot_mtd == IF has_any THEN a.tot_mtd ELSE None
        tot_last == IF has_any THEN a.tot_last ELSE None
    IN [title_day |-> NoneDay,
        header_y |-> fmt_or_dash_money(tot_y),
        y_lines |-> a.y_lines,
        header_proj |-> WithPct(fmt_or_dash_money(tot_proj), HeaderPct(tot_proj, tot_last)),
        proj_lines |-> a.proj_lines,
        tot_y |-> tot_y, tot_mtd |-> tot_mtd, tot_last |-> tot_last,
        tot_proj |-> tot_proj]

\* build_section_lists(labels, per_chan, metric_key_prefix, value_formatter,
\* latest_key) with the two headers slack_blocks_full makes of its totals:
\* the totals start at 0.0 and are never None
build_section_lists(labels, pch, family, formatter) ==
    LET a == SectionLoop(labels, pch, family, formatter, Len(labels))
        total_proj == IF Len(a.latest_candidates) > 0
                      THEN month_projection_for(SectionLatest(a), a.tot_mtd)
                      ELSE Num(0)
        header(x) == IF formatter = "fmt_money" THEN fmt_or_dash_money(x)
                     ELSE fmt_or_dash_number(x)
    IN [title_day |-> NoneDay,
        header_y |-> header(a.tot_y),
        y_lines |-> a.y_lines,
        header_proj |-> WithPct(header(total_proj), pct_change(total_proj, a.tot_last)),
        proj_lines |-> a.proj_lines,
        tot_y |-> a.tot_y, tot_mtd |-> a.tot_mtd, tot_last |-> a.tot_last,
        tot_proj |-> total_proj]

\* slack_blocks_full(per_chan, labels_order)
slack_blocks_full(pch, labels) ==
    [built |-> TRUE,
     rev |-> build_section_lists(labels, pch, "rev", "fmt_money"),
     views |-> build_section_lists(labels, pch, "views", "fmt_number")]

\* the blocks the variant builds
BuildBlocks ==
    IF variant = "views"
    THEN [built |-> TRUE, rev |-> NoSection,
          views |-> build_views_sections(labels_order, per_chan, global_latest)]
    ELSE IF variant = "revenue"
    THEN [built |-> TRUE, rev |-> build_revenue_sections(labels_order, per_chan),
          views |-> NoSection]
    ELSE slack_blocks_full(per_chan, labels_order)

(***************************************************************************)
(* main(): sheets, rendering, delivery, console summary                    *)
(***************************************************************************)
\* main.py and the revenue variant: write_facts_to_sheets, skipped when
\* GOOGLE_SHEET_URL is empty, any exception caught
WriteSheets ==
    /\ pc = "sheets"
    /\ \E o \in {"skipped", "ok", "exception"} :
        /\ (o = "exception") => faults < MaxFaults
        /\ faults' = IF o = "exception" THEN faults + 1 ELSE faults
        /\ requests' = IF o = "skipped" THEN requests
                       ELSE Append(requests,
                                Req("sheets", "sheets", "", "deliver", "", NoDate, NoDate,
                                    FALSE, 0, o, 0))
    /\ pc' = "self_test"
    /\ UNCHANGED <<inputs, idx, metric, at, cur, per_chan, global_latest,
                   blocks, delivered, exit_code, fnVars>>

\* main.py and the revenue variant: slack_self_test(), any exception caught
SlackSelfTest ==
    /\ pc = "self_test"
    /\ IF env.webhook # "slack"
       THEN UNCHANGED <<faults, requests>>
       ELSE \E o \in WebhookOutcomes :
               /\ Outcome(o)
               /\ Issue(Req("webhook", "self_test", "", "deliver", "", NoDate, NoDate,
                            FALSE, 10, o, 0))
    /\ pc' = "render"
    /\ UNCHANGED <<inputs, idx, metric, at, cur, per_chan, global_latest,
                   blocks, delivered, exit_code, fnVars>>

\* blocks = build_views_sections(...) / build_revenue_sections(...) /
\* slack_blocks_full(...)
Render ==
    /\ pc = "render"
    /\ blocks' = BuildBlocks
    /\ pc' = "post"
    /\ UNCHANGED <<inputs, idx, metric, at, cur, per_chan, global_latest,
                   faults, requests, delivered, exit_code, fnVars>>

\* post_to_slack(payload): False without posting when the webhook is not a
\* Slack URL ("skipped"); else True on a 2xx status, False on any other
\* status and on any exception
post_to_slack(o) == IF o = "ok" THEN "True" ELSE "False"

WebhookReq(purpose, o) ==
    Req("webhook", purpose, "", "deliver", "", NoDate, NoDate, FALSE, 15, o, 0)

\* one call of post_to_slack for the given part, leaving what it returned
\* in delivered'
PostPayload(purpose) ==
    IF env.webhook # "slack"
    THEN delivered' = post_to_slack("skipped") /\ UNCHANGED <<faults, requests>>
    ELSE \E o \in WebhookOutcomes :
            /\ Outcome(o)
            /\ Issue(WebhookReq(purpose, o))
            /\ delivered' = post_to_slack(o)

\* views and revenue variants: post_to_slack({"blocks": blocks})
PostToSlack ==
    /\ pc = "post"
    /\ variant # "combined"
    /\ PostPayload("report")
    /\ pc' = "summary"
    /\ UNCHANGED <<inputs, idx, metric, at, cur, per_chan, global_latest,
                   blocks, exit_code, fnVars>>

\* part A posted with no handler around requests.post: an exception leaves
\* main()
PostPartAUncaught ==
    /\ pc = "post"
    /\ variant = "combined"
    /\ PostPayload("part_a")
    /\ pc' = IF requests' # requests /\ requests'[Len(requests')].outcome = "exception"
             THEN "fatal"
             ELSE IF delivered' = "True" THEN "post_b" ELSE "summary"
    /\ UNCHANGED <<inputs, idx, metric, at, cur, per_chan, global_latest,
                   blocks, exit_code, fnVars>>

\* part B posted whatever part A returned
PostPartAThenAlwaysB ==
    /\ pc = "post"
    /\ variant = "combined"
    /\ IF blocks.views = NoSection
       THEN PostPayload("single") /\ pc' = "summary"
       ELSE PostPayload("part_a") /\ pc' = "post_b"
    /\ UNCHANGED <<inputs, idx, metric, at, cur, per_chan, global_latest,
                   blocks, exit_code, fnVars>>

\* main.py, post_blocks_in_two_parts: without a "*Views KPI*" header in the
\* blocks a single post of all of them; else ok1 = post_to_slack(part A), and
\* part B is posted only if ok1
PostPartA ==
    /\ pc = "post"
    /\ variant = "combined"
    /\ IF blocks.views = NoSection
       THEN PostPayload("single") /\ pc' = "summary"
       ELSE /\ PostPayload("part_a")
            /\ pc' = IF delivered' = "True" THEN "post_b" ELSE "summary"
    /\ UNCHANGED <<inputs, idx, metric, at, cur, per_chan, global_latest,
                   blocks, exit_code, fnVars>>

\* ok2 = post_to_slack(part B); return ok1 and ok2
PostPartB ==
    /\ pc = "post_b"
    /\ PostPayload("part_b")
    /\ pc' = "summary"
    /\ UNCHANGED <<inputs, idx, metric, at, cur, per_chan, global_latest,
                   blocks, exit_code, fnVars>>

\* the console summary, after which main() returns
PrintSummary ==
    /\ pc = "summary"
    /\ pc' = "done"
    /\ UNCHANGED <<inputs, idx, metric, at, cur, per_chan, global_latest,
                   faults, requests, blocks, delivered, exit_code, fnVars>>

\* the "if __name__ == '__main__'" block: main() returned, or an exception
\* reached the handler, which prints FATAL and the traceback and calls
\* sys.exit(1)
ExitCodeOf(position) ==
    IF position = "fatal" THEN "1" ELSE "0"

ProcessExit ==
    /\ pc \in {"done", "fatal"}
    /\ exit_code = "running"
    /\ exit_code' = ExitCodeOf(pc)
    /\ UNCHANGED <<inputs, pc, idx, metric, at, cur, per_chan, global_latest,
                   faults, requests, blocks, delivered, fn_call, fn_ret>>

(***************************************************************************)
(* The three scripts                                                       *)
(***************************************************************************)
FetchPass ==
    \/ Startup
    \/ NextChannel
    \/ GetAccessToken
    \/ ChannelIdentity
    \/ DetectFirstQuery
    \/ DetectSecondQuery
    \/ SumYesterday
    \/ SumMonthToDate
    \/ SumLastMonth

ReconcilePass ==
    \/ ComputeGlobalLatest
    \/ ReconcileNext
    \/ ReconcileToken
    \/ ReconcileSum

\* views_kpi_poster.py
Next == FetchPass \/ ReconcilePass \/ Render \/ PostToSlack \/ PrintSummary \/ ProcessExit

Spec == Init /\ [][Next]_vars

\* adsense_kpi_poster.py
InitRevenue == InitPipe("revenue")
NextRevenue ==
    FetchPass \/ WriteSheets \/ SlackSelfTest \/ Render \/ PostToSlack \/ PrintSummary
        \/ ProcessExit
SpecRevenue == InitRevenue /\ [][NextRevenue]_vars

\* main.py
InitCombined == InitPipe("combined")
NextCombined ==
    FetchPass \/ WriteSheets \/ SlackSelfTest \/ Render \/ PostPartA \/ PostPartB
        \/ PrintSummary \/ ProcessExit
SpecCombined == InitCombined /\ [][NextCombined]_vars

(***************************************************************************)
(* Direct calls of month_projection_for and sum_metric                     *)
(***************************************************************************)
FnYears == {1900, 2000, 2023, 2024}

\* every date of the years above
FnDays ==
    {Day(yy, mm, dd) : yy \in FnYears, mm \in 1..12, dd \in 1..28}
    \cup {dt \in {Day(yy, mm, dd) : yy \in FnYears, mm \in 1..12, dd \in 29..31} :
             dt.d <= LibDaysInMonth(dt.y, dt.m)}

\* totals: whole and half numbers of either sign, None, and a non-number
FnTotals ==
    {Frac(a, b) : a \in (0 - MaxTotal)..MaxTotal, b \in {1, 2}}
    \cup {None, NotANumber}

\* token store files: missing, not JSON, a JSON value that is not an object,
\* or an object of up to MaxKeys members, a label possibly repeated
FnMembers == [label : LabelSet, refresh_token : BOOLEAN]
FnFiles ==
    {[kind |-> kd, content |-> <<>>] : kd \in {"missing", "unparsable", "not_object"}}
    \cup {[kind |-> "object", content |-> c] :
             c \in UNION {[1..k -> FnMembers] : k \in 0..MaxKeys}}

\* the arguments given to pct_change: the totals above and the empty string
FnOperands == FnTotals \cup {EmptyString} \cup {Num(90), Num(100), Num(110)}

FnRowDates == {<<2024, 12, 31>>, <<2025, 9, 30>>, <<2025, 10, 14>>, <<2025, 10, 15>>}
FnRow == {<<s, v>> : s \in FnRowDates, v \in 0..2}
FnRowLists == UNION {[1..k -> FnRow] : k \in 0..MaxRows}

\* the responses given to sum_metric: no "rows" key, or a list of rows
FnResponses ==
    {[missing |-> TRUE, rows |-> <<>>]}
    \cup {[missing |-> FALSE, rows |-> r] : r \in FnRowLists}

InitFn ==
    /\ variant = "none"
    /\ today = Day(2025, 10, 16)
    /\ tokens = <<>>
    /\ env = GoodEnv
    /\ store = "object"
    /\ exit_code = "running"
    /\ backend = [l \in LabelSet |-> [has_rows |-> FALSE, lag |-> 0, base |-> 0]]
    /\ pc = "call"
    /\ idx = 0
    /\ metric = "none"
    /\ at = NoToken
    /\ cur = NoLocals
    /\ per_chan = [l \in LabelSet |-> NoEntry]
    /\ global_latest = NoneDay
    /\ faults = 0
    /\ requests = <<>>
    /\ blocks = NoBlocks
    /\ delivered = "None"
    /\ fn_ret = FnPending
    /\ \/ \E dt \in FnDays \cup {NoneDay}, t \in FnTotals :
            fn_call = [FnIdle EXCEPT !.fn = "month_projection_for",
                                     !.day = dt, !.total = t]
       \/ \E r \in FnResponses :
            fn_call = [FnIdle EXCEPT !.fn = "sum_metric", !.resp = r]
       \/ \E r \in FnResponses :
            fn_call = [FnIdle EXCEPT !.fn = "detect_latest_day", !.resp = r]
       \/ \E f \in FnFiles :
            fn_call = [FnIdle EXCEPT !.fn = "load_tokens_file", !.file = f]
       \/ \E c \in FnOperands, b \in FnOperands :
            fn_call = [FnIdle EXCEPT !.fn = "pct_change", !.curr = c, !.base = b]

pipeVars == <<variant, today, tokens, backend, env, store, exit_code, idx, metric, at, cur, per_chan,
              global_latest, faults, requests, blocks, delivered>>

CallMonthProjection ==
    /\ pc = "call"
    /\ fn_call.fn = "month_projection_for"
    /\ fn_ret' = month_projection_for(fn_call.day, fn_call.total)
    /\ pc' = "returned"
    /\ UNCHANGED <<pipeVars, fn_call>>

\* sum_metric on the response its query came back with
CallSumMetric ==
    /\ pc = "call"
    /\ fn_call.fn = "sum_metric"
    /\ fn_ret' = SumRows(fn_call.resp)
    /\ pc' = "returned"
    /\ UNCHANGED <<pipeVars, fn_call>>

\* detect_latest_day on the response its (last) query came back with
CallDetectLatestDay ==
    /\ pc = "call"
    /\ fn_call.fn = "detect_latest_day"
    /\ fn_ret' = LatestOfRows(IF fn_call.resp.missing THEN <<>> ELSE fn_call.resp.rows)
    /\ pc' = "returned"
    /\ UNCHANGED <<pipeVars, fn_call>>

\* load_tokens_file on a token store file
CallLoadTokens ==
    /\ pc = "call"
    /\ fn_call.fn = "load_tokens_file"
    /\ fn_ret' = load_tokens_file(fn_call.file.kind, fn_call.file.content)
    /\ pc' = "returned"
    /\ UNCHANGED <<pipeVars, fn_call>>

\* pct_change on any two values
CallPctChange ==
    /\ pc = "call"
    /\ fn_call.fn = "pct_change"
    /\ fn_ret' = pct_change(fn_call.curr, fn_call.base)
    /\ pc' = "returned"
    /\ UNCHANGED <<pipeVars, fn_call>>

NextFn ==
    CallMonthProjection \/ CallSumMetric \/ CallLoadTokens \/ CallPctChange
        \/ CallDetectLatestDay
SpecFn == InitFn /\ [][NextFn]_vars

(***************************************************************************)
(* Reference definitions for the properties                                *)
(***************************************************************************)
\* a date as one number, ordered as the calendar is
DayKey(dt) == dt.y * 10000 + dt.m * 100 + dt.d

\* the Gregorian length of a month, by the rule of the calendar
GregorianLeap(yy) == (yy % 4 = 0) /\ ((yy % 100 # 0) \/ (yy % 400 = 0))
GregorianLen(yy, mm) ==
    IF mm = 2 THEN (IF GregorianLeap(yy) THEN 29 ELSE 28)
    ELSE IF mm \in {4, 6, 9, 11} THEN 30
    ELSE 31

\* whether the backend holds a row of the channel for the day with ordinal
\* ord, t being the ordinal of today
HoldsDay(label, ord, t) ==
    /\ backend[label].has_rows
    /\ ord >= t - DataSpan
    /\ ord <= t - backend[label].lag

\* what the backend holds for the channel over the days lo..hi
RECURSIVE HeldThrough(_, _, _, _)
HeldThrough(label, lo, hi, t) ==
    IF hi < lo THEN 0
    ELSE HeldThrough(label, lo, hi - 1, t)
         + (IF HoldsDay(label, hi, t) THEN ValueOn(backend[label], hi) ELSE 0)

\* the sum of the channel's rows over [first_of_month(g), g]
RangeSumTo(label, g) ==
    HeldThrough(label, ToOrdinal(Day(g.y, g.m, 1)), ToOrdinal(Day(g.y, g.m, 1)) + g.d - 1,
                ToOrdinal(today))

\* the views variant has computed its global latest day
AfterGlobal ==
    /\ variant = "views"
    /\ pc \in {"reconcile", "r_token", "r_sum", "render", "post", "summary", "done"}

\* the views_latest days the fetch pass found
LatestDays == {per_chan[l].views.latest : l \in LabelSet} \ {NoneDay}

ReconcileRequests == {k \in 1..Len(requests) : requests[k].pass = "reconcile"}

Returned(fn) == pc = "returned" /\ fn_call.fn = fn

(***************************************************************************)
(* Properties                                                              *)
(***************************************************************************)
\* C1: in the views variant, once the fetch pass is over, global_latest is
\* the maximum of the channels' views_latest that are not None; when every
\* views_latest is None, global_latest is None, no reconcile request has been
\* issued and every channel's mtd_views_global is None.
C1_GlobalLatestIsMax ==
    AfterGlobal =>
        IF LatestDays = {}
        THEN /\ global_latest = NoneDay
             /\ ReconcileRequests = {}
             /\ \A l \in LabelSet : per_chan[l].mtd_views_global = None
        ELSE /\ global_latest \in LatestDays
             /\ \A dt \in LatestDays : DayKey(dt) <= DayKey(global_latest)

\* a finished run in which the second channel's latest day is the later one
C1_Witness ==
    /\ variant = "views"
    /\ pc = "done"
    /\ per_chan["A"].views.latest # NoneDay
    /\ per_chan["B"].views.latest # NoneDay
    /\ DayKey(per_chan["A"].views.latest) > DayKey(per_chan["B"].views.latest)
    /\ global_latest = per_chan["A"].views.latest

\* C2: every recompute query of the reconcile pass asks for exactly
\* [first_of_month(global_latest), global_latest], and for every channel
\* whose recompute succeeded mtd_views_global is the sum of the channel's
\* rows over that range, whatever the channel's own latest day was.
C2_ReconciledIsGlobalRangeSum ==
    \A k \in 1..Len(requests) :
        LET r == requests[k]
        IN (r.pass = "reconcile" /\ r.kind = "analytics") =>
            /\ global_latest # NoneDay
            /\ r.start_date = <<global_latest.y, global_latest.m, 1>>
            /\ r.end_date = <<global_latest.y, global_latest.m, global_latest.d>>
            /\ r.outcome = "ok" =>
                per_chan[r.label].mtd_views_global = Num(RangeSumTo(r.label, global_latest))

\* a finished run in which a channel whose own latest day lies in the month
\* before the global latest day was recomputed, to a figure other than its
\* own month-to-date
C2_Witness ==
    /\ variant = "views"
    /\ pc = "done"
    /\ \E l \in LabelSet :
        /\ per_chan[l].views.latest # NoneDay
        /\ per_chan[l].views.latest.m # global_latest.m
        /\ IsNumber(per_chan[l].views.mtd)
        /\ IsNumber(per_chan[l].mtd_views_global)
        /\ per_chan[l].mtd_views_global # per_chan[l].views.mtd

\* the latest of the channels' revenue days
RevLatestDays == {per_chan[l].rev.latest : l \in LabelSet} \ {NoneDay}
RevGlobalLatest ==
    CHOOSE g \in RevLatestDays : \A dt \in RevLatestDays : DayKey(dt) <= DayKey(g)

\* the projection line of a channel from its month-to-date aligned to the day g
AlignedLine(label, g) ==
    LET proj == month_projection_for(g, Num(RangeSumTo(label, g)))
    IN Text(fmt_money(proj), pct_change(proj, per_chan[label].rev.last_month))

\* C3: in the revenue report, the projection line of every channel is
\* computed from the channel's month-to-date over [first_of_month(G), G]
\* anchored at the global latest day G, and the total projection from the sum
\* of those aligned month-to-date values anchored at G, also when the
\* channels' latest days differ.
C3_RevenueProjectionIsGlobalAligned ==
    ( /\ variant = "revenue"
      /\ blocks.built
      /\ \A l \in LabelSet :
            per_chan[l].rev.latest # NoneDay /\ IsNumber(per_chan[l].rev.mtd) )
    => /\ \A k \in 1..N :
            blocks.rev.proj_lines[k].text = AlignedLine(labels_order[k], RevGlobalLatest)
       /\ IsNumber(blocks.rev.tot_proj)
       /\ FracEq(blocks.rev.tot_proj,
                 month_projection_for(RevGlobalLatest,
                     Num(RangeSumTo("A", RevGlobalLatest) + RangeSumTo("B", RevGlobalLatest))))

\* C4 as stated: for an anchor date on day 1 of its month and a numeric total
\* T, month_projection_for returns T.
C4_DayOneReturnsTotal ==
    ( /\ Returned("month_projection_for")
      /\ fn_call.day # NoneDay
      /\ fn_call.day.d = 1
      /\ IsNumber(fn_call.total) )
    => IsNumber(fn_ret) /\ FracEq(fn_ret, fn_call.total)

\* C4, amended: for an anchor date D on day 1 of its month and a numeric
\* total T, the daily average is T and month_projection_for returns
\* max(T * days_in_month(D), 0).
C4_DayOneReturnsTotalTimesMonthLength ==
    ( /\ Returned("month_projection_for")
      /\ fn_call.day # NoneDay
      /\ fn_call.day.d = 1
      /\ IsNumber(fn_call.total) )
    => /\ IsNumber(fn_ret)
       /\ IF fn_call.total.n < 0
          THEN fn_ret.n = 0
          ELSE fn_ret.n * fn_call.total.den
                 = fn_call.total.n * GregorianLen(fn_call.day.y, fn_call.day.m) * fn_ret.den

\* a call on the first of a month with a positive total, returning more than
\* the total
C4_Witness ==
    /\ Returned("month_projection_for")
    /\ fn_call.day # NoneDay
    /\ fn_call.day.d = 1
    /\ IsNumber(fn_call.total)
    /\ fn_call.total.n > 0
    /\ IsNumber(fn_ret)
    /\ fn_ret.n * fn_call.total.den > fn_call.total.n * fn_ret.den

\* C5: for every date D and numeric T, month_projection_for(D, T) is
\* max((T / day_of_month(D)) * days_in_month(D), 0): never negative, and 0
\* for every negative T.
C5_ProjectionFormula ==
    ( /\ Returned("month_projection_for")
      /\ fn_call.day # NoneDay
      /\ IsNumber(fn_call.total) )
    => /\ IsNumber(fn_ret)
       /\ fn_ret.den > 0
       /\ fn_ret.n >= 0
       /\ IF fn_call.total.n < 0
          THEN fn_ret.n = 0
          ELSE fn_ret.n * (fn_call.total.den * fn_call.day.d)
                 = fn_call.total.n * GregorianLen(fn_call.day.y, fn_call.day.m) * fn_ret.den

\* a call with a negative total on a day after the first, returning 0
C5_Witness ==
    /\ Returned("month_projection_for")
    /\ fn_call.day # NoneDay
    /\ fn_call.day.d > 1
    /\ IsNumber(fn_call.total)
    /\ fn_call.total.n < 0
    /\ fn_ret = Num(0)

\* C6: for every day D of every month, the month length computed inside
\* month_projection_for is the Gregorian length of D's month, its first of
\* next month being the first day of the following month (of January of the
\* next year for December).
C6_MonthLengthIsGregorian ==
    ( /\ Returned("month_projection_for")
      /\ fn_call.day # NoneDay )
    => /\ DaysInMonth(fn_call.day) = GregorianLen(fn_call.day.y, fn_call.day.m)
       /\ NextMonthFirst(fn_call.day)
            = IF fn_call.day.m = 12
              THEN Day(fn_call.day.y + 1, 1, 1)
              ELSE Day(fn_call.day.y, fn_call.day.m + 1, 1)

\* a call on 29 February of a leap year, whose result is the total scaled by
\* 29 / 29
C6_Witness ==
    /\ Returned("month_projection_for")
    /\ fn_call.day = Day(2024, 2, 29)
    /\ IsNumber(fn_call.total)
    /\ fn_call.total.n > 0
    /\ FracEq(fn_ret, fn_call.total)

\* C7: month_projection_for returns 0, and does not raise, whenever the
\* anchor date is None or the total is None or not a number, whatever the
\* other argument is.
C7_GuardReturnsZero ==
    ( /\ Returned("month_projection_for")
      /\ (fn_call.day = NoneDay \/ ~IsNumber(fn_call.total)) )
    => fn_ret = Num(0)

\* a call with a date and a total that is not a number, returning 0
C7_Witness ==
    /\ Returned("month_projection_for")
    /\ fn_call.day # NoneDay
    /\ fn_call.total = NotANumber
    /\ fn_ret = Num(0)

\* the channels whose day detection came back without any row
NoRowsChannels ==
    {requests[k].label : k \in {j \in 1..Len(requests) :
        /\ requests[j].purpose = "detect"
        /\ requests[j].outcome = "ok"
        /\ requests[j].nrows = 0}}

\* C8: in the views report, a channel whose day detection returned no rows
\* has latest day None and yesterday, month-to-date, previous month and
\* reconciled month-to-date None, and both its lines are the placeholder
\* dash, also when another channel supplies a global latest day.
C8_NoRowsChannelIsAllNone ==
    (variant = "views" /\ blocks.built) =>
        \A k \in 1..N :
            labels_order[k] \in NoRowsChannels =>
                /\ per_chan[labels_order[k]].views = NoFamily
                /\ per_chan[labels_order[k]].mtd_views_global = None
                /\ blocks.views.y_lines[k].text = EM_DASH
                /\ blocks.views.proj_lines[k].text = EM_DASH

\* the value column summed value by value
FnValues == {r[2] : r \in FnRow}
RECURSIVE SumOfValues(_, _)
SumOfValues(rows, vals) ==
    IF vals = {} THEN 0
    ELSE LET v == CHOOSE x \in vals : TRUE
         IN v * Cardinality({k \in 1..Len(rows) : rows[k][2] = v})
            + SumOfValues(rows, vals \ {v})

\* C9: sum_metric on a successful query returns 0, never None, when the row
\* list is empty or missing, and the sum of the value column of all rows
\* otherwise.
C9_SumMetric ==
    Returned("sum_metric") =>
        /\ IsNumber(fn_ret)
        /\ fn_ret.den = 1
        /\ fn_ret.n = IF fn_call.resp.missing \/ Len(fn_call.resp.rows) = 0
                      THEN 0
                      ELSE SumOfValues(fn_call.resp.rows, FnValues)

\* a call on a response without a "rows" key, returning 0
C9_Witness ==
    /\ Returned("sum_metric")
    /\ fn_call.resp.missing
    /\ fn_ret = Num(0)

\* the channels that contributed a yesterday value / a month-to-date value
\* to the totals of a family
ContributedY(family) ==
    {l \in LabelSet : per_chan[l][family].latest # NoneDay /\ IsNumber(per_chan[l][family].y)}
ContributedMtd(family) ==
    {l \in LabelSet : per_chan[l][family].latest # NoneDay /\ IsNumber(per_chan[l][family].mtd)}

RECURSIVE SumY(_, _)
SumY(family, chans) ==
    IF chans = {} THEN Num(0)
    ELSE LET l == CHOOSE x \in chans : TRUE
         IN Plus(per_chan[l][family].y, SumY(family, chans \ {l}))

\* C10: in main.py's report, a family to which no channel contributed has
\* totals None and header lines with the placeholder dash rather than 0, and
\* otherwise the yesterday total is the sum over the contributing channels.
C10_TotalsNoneWithoutContribution ==
    (variant = "combined" /\ blocks.built) =>
        \A family \in {"rev", "views"} :
            /\ ContributedY(family) = {} =>
                  /\ blocks[family].tot_y = None
                  /\ blocks[family].header_y = EM_DASH
            /\ ContributedMtd(family) = {} =>
                  /\ blocks[family].tot_proj = None
                  /\ blocks[family].header_proj = EM_DASH
            /\ ContributedY(family) # {} =>
                  /\ IsNumber(blocks[family].tot_y)
                  /\ FracEq(blocks[family].tot_y, SumY(family, ContributedY(family)))

(***************************************************************************)
(* Direct calls of the report builders                                     *)
(***************************************************************************)
\* the figures of a family in a result mapping given to a builder
BuildDays == {NoneDay, Day(2025, 10, 15)}
BuildFamilies ==
    {[latest |-> dt, y |-> a, mtd |-> b, last_month |-> c] :
        dt \in BuildDays,
        a \in {None, Num(0), Num(3)},
        b \in {None, Num(0), Num(MaxTotal)},
        c \in {None, Num(0), Num(2)}}
\* the second family of main.py's mapping
BuildFamiliesSmall ==
    {[latest |-> dt, y |-> a, mtd |-> a, last_month |-> c] :
        dt \in BuildDays, a \in {None, Num(0)}, c \in {None, Num(2)}}

\* the entries of a label: any values, or no entry at all (the builders read
\* per_chan.get(label, {}))
BuildEntries(v) ==
    {NoEntry} \cup
    IF v = "views"
    THEN {[SkippedEntry EXCEPT !.views = f, !.mtd_views_global = g] :
             f \in BuildFamilies, g \in {None, Num(0), Num(MaxTotal)}}
    ELSE IF v = "revenue"
    THEN {[SkippedEntry EXCEPT !.rev = f] : f \in BuildFamilies}
    ELSE {[SkippedEntry EXCEPT !.rev = f, !.views = g] :
             f \in BuildFamilies, g \in BuildFamiliesSmall}

\* the token store's labels in either order
BuildOrders == {Labels, [k \in 1..Len(Labels) |-> Labels[Len(Labels) + 1 - k]]}

\* main() just before it builds its blocks, for any result mapping
InitBuild ==
    /\ variant \in {"views", "revenue", "combined"}
    /\ env = GoodEnv
    /\ store = "object"
    /\ exit_code = "running"
    /\ today = Day(2025, 10, 16)
    /\ \E order \in BuildOrders :
          tokens = [k \in 1..Len(Labels) |-> [label |-> order[k], refresh_token |-> TRUE]]
    /\ backend = [l \in LabelSet |-> [has_rows |-> FALSE, lag |-> 0, base |-> 0]]
    /\ pc = "render"
    /\ idx = N + 1
    /\ metric = FirstMetric(variant)
    /\ at = NoToken
    /\ cur = NoLocals
    /\ per_chan \in [LabelSet -> BuildEntries(variant)]
    /\ global_latest \in (IF variant = "views" THEN BuildDays ELSE {NoneDay})
    /\ faults = 0
    /\ requests = <<>>
    /\ blocks = NoBlocks
    /\ delivered = "None"
    /\ fn_call = FnIdle
    /\ fn_ret = FnPending

NextBuild == Render
SpecBuild == InitBuild /\ [][NextBuild]_vars

(***************************************************************************)
(* post_blocks_in_two_parts applied to blocks with and without a views     *)
(* section                                                                 *)
(***************************************************************************)
\* the blocks given to post_blocks_in_two_parts: those slack_blocks_full
\* builds, and the same without the views section and its header
PostBlocks(pch, labels) ==
    {slack_blocks_full(pch, labels),
     [slack_blocks_full(pch, labels) EXCEPT !.views = NoSection]}

InitPost ==
    /\ variant = "combined"
    /\ env \in {GoodEnv, [GoodEnv EXCEPT !.webhook = "other"]}
    /\ store = "object"
    /\ exit_code = "running"
    /\ today = Day(2025, 10, 16)
    /\ tokens = AllTokens
    /\ backend = [l \in LabelSet |-> [has_rows |-> FALSE, lag |-> 0, base |-> 0]]
    /\ pc = "post"
    /\ idx = Len(Labels) + 1
    /\ metric = FirstMetric("combined")
    /\ at = NoToken
    /\ cur = NoLocals
    /\ per_chan \in [LabelSet ->
                       {NoEntry} \cup {[SkippedEntry EXCEPT !.rev = f] : f \in BuildFamiliesSmall}]
    /\ global_latest = NoneDay
    /\ faults = 0
    /\ requests = <<>>
    /\ blocks \in PostBlocks(per_chan, [k \in 1..Len(Labels) |-> Labels[k]])
    /\ delivered = "None"
    /\ fn_call = FnIdle
    /\ fn_ret = FnPending

NextPost == PostPartA \/ PostPartB
SpecPost == InitPost /\ [][NextPost]_vars

\* the families the variant reports
FamiliesOf(v) ==
    IF v = "views" THEN {"views"}
    ELSE IF v = "revenue" THEN {"rev"}
    ELSE {"rev", "views"}

\* the value a channel's projection line is made of, and the day it hangs on
ProjValue(v, family, d) ==
    IF v = "views" THEN d.mtd_views_global ELSE d[family].mtd
ProjDay(v, family, d) ==
    IF v = "views" THEN global_latest ELSE d[family].latest

\* a rendered zero: the digit 0, no sign, no dash
IsZeroText(text) == ~text.dash /\ text.mag = 0 /\ ~text.neg

\* C11: every per-channel line is the placeholder dash if and only if the
\* value under it, or the day it hangs on, is None; a present zero renders
\* as 0 and never as the dash.
C11_DashIffAbsent ==
    blocks.built =>
        \A family \in FamiliesOf(variant) : \A k \in 1..N :
            LET d == per_chan[labels_order[k]]
                y_text == blocks[family].y_lines[k].text
                p_text == blocks[family].proj_lines[k].text
                p_val == ProjValue(variant, family, d)
                p_day == ProjDay(variant, family, d)
            IN /\ y_text.dash <=> (d[family].latest = NoneDay \/ d[family].y = None)
               /\ (d[family].latest # NoneDay /\ d[family].y = Num(0)) => IsZeroText(y_text)
               /\ p_text.dash <=> (p_day = NoneDay \/ p_val = None)
               /\ (p_day # NoneDay /\ p_val = Num(0)) => IsZeroText(p_text)

\* a views report with one channel whose reconciled month-to-date is a
\* present zero, rendered as 0, and one whose value is absent
C11_Witness ==
    /\ variant = "views"
    /\ blocks.built
    /\ global_latest # NoneDay
    /\ per_chan["A"].mtd_views_global = Num(0)
    /\ IsZeroText(blocks.views.proj_lines[1].text)
    /\ per_chan["B"].mtd_views_global = None
    /\ blocks.views.proj_lines[2].text = EM_DASH

\* the metric queries that failed, by position in the log
FailedQueries ==
    {k \in 1..Len(requests) : requests[k].kind = "analytics" /\ requests[k].outcome # "ok"}

\* C12: a metric query that fails in the fetch pass or the reconcile pass,
\* whether by an HTTP error status, a timeout, a connection error or a
\* malformed response, never aborts the run: main() goes on to the next
\* channel and to the delivery of the report.
C12_QueryFailureNeverAborts ==
    FailedQueries # {} => pc # "fatal"

\* the position of a label in the token store
IndexOf(label) == CHOOSE k \in 1..N : tokens[k].label = label

\* the labels whose token exchange failed in the fetch pass
FailedTokenLabels ==
    {requests[k].label : k \in {j \in 1..Len(requests) :
        /\ requests[j].kind = "token"
        /\ requests[j].pass = "fetch"
        /\ requests[j].outcome # "ok"}}

\* the positions of main() inside the fetch pass
FetchPositions ==
    {"loop", "token", "identity", "detect", "detect_retry", "sum_y", "sum_mtd", "sum_last"}

\* the positions of main() after the fetch pass
AfterFetchPositions ==
    {"global", "reconcile", "r_token", "r_sum", "sheets", "self_test", "render",
     "post", "post_b", "summary", "done"}

\* the labels the fetch pass has to skip
SkippedLabels ==
    {tokens[k].label : k \in {j \in 1..N : ~tokens[j].refresh_token}} \cup FailedTokenLabels

\* C13: a channel without a refresh token, or whose token exchange fails in
\* the fetch pass, is recorded with latest day None; no identity or
\* analytics request is issued for it in that pass; and the pass goes on to
\* the next channel.
C13_TokenFailureSkipsChannel ==
    /\ \A l \in SkippedLabels :
        /\ \A k \in 1..Len(requests) :
              (requests[k].label = l /\ requests[k].pass = "fetch")
                  => requests[k].kind = "token"
        /\ ((pc \in FetchPositions /\ idx > IndexOf(l)) \/ pc \in AfterFetchPositions) =>
              /\ per_chan[l].present
              /\ per_chan[l].rev = NoFamily
              /\ per_chan[l].views = NoFamily
    /\ ( /\ Len(requests) > 0
         /\ requests[Len(requests)].kind = "token"
         /\ requests[Len(requests)].pass = "fetch"
         /\ requests[Len(requests)].outcome # "ok" )
       => /\ pc # "fatal"
          /\ pc \in FetchPositions => idx > IndexOf(requests[Len(requests)].label)

\* a finished run in which the first channel's token exchange failed and the
\* second channel was fetched
C13_Witness ==
    /\ variant = "revenue"
    /\ pc = "done"
    /\ "A" \in FailedTokenLabels
    /\ per_chan["A"] = SkippedEntry
    /\ per_chan["B"].rev.latest # NoneDay

\* C14: in the reconcile pass, a channel whose recompute query errors has
\* mtd_views_global None and the reason "403_forbidden" for HTTP 403 and
\* "error" for any other error, a channel for which no token could be
\* obtained has the reason "no_access_token", and the pass is not stopped:
\* the later channels are still reconciled.
C14_ReconcileErrorIsRecorded ==
    \A k \in 1..Len(requests) :
        LET r == requests[k]
        IN /\ (r.pass = "reconcile" /\ r.kind = "analytics" /\ r.outcome # "ok") =>
                /\ k = Len(requests) => pc # "fatal"
                /\ per_chan[r.label].mtd_views_global = None
                /\ per_chan[r.label].reason
                     = IF r.outcome = "http_403" THEN "403_forbidden" ELSE "error"
           /\ (r.pass = "reconcile" /\ r.kind = "token" /\ r.outcome # "ok") =>
                /\ k = Len(requests) => pc # "fatal"
                /\ per_chan[r.label].mtd_views_global = None
                /\ per_chan[r.label].reason = "no_access_token"

(***************************************************************************)
(* C15: start-up errors                                                    *)
(***************************************************************************)

\* a required setting is missing or a placeholder, or the token store cannot
\* be loaded
StartupFails == StartupError # "None"

\* C15: a missing or placeholder required setting or an unloadable token
\* store ends the run with exit status 1 before any request is issued, and
\* no other error ends the process with a non-zero exit status.
C15_OnlyStartupErrorsAreFatal ==
    /\ StartupFails =>
          /\ requests = <<>>
          /\ pc \in {"start", "fatal"}
          /\ exit_code \in {"running", "1"}
    /\ exit_code = "1" => StartupFails

(***************************************************************************)
(* C16: load_tokens_file                                                   *)
(***************************************************************************)

\* the labels of the members of a file, and where a label first and last
\* occurs in it
FileLabels(content) == {content[k].label : k \in 1..Len(content)}
FirstAt(content, l) ==
    CHOOSE k \in 1..Len(content) :
        content[k].label = l /\ \A j \in 1..(k - 1) : content[j].label # l
LastAt(content, l) ==
    CHOOSE k \in 1..Len(content) :
        content[k].label = l /\ \A j \in (k + 1)..Len(content) : content[j].label # l

\* C16: load_tokens_file raises, returning nothing, for a missing file, for
\* an empty object and for JSON that is not an object (and for text that is
\* not JSON); otherwise it returns the mapping of the file: every label
\* once, in the order in which the labels first occur in the file.
C16_LoadTokensFile ==
    Returned("load_tokens_file") =>
        LET f == fn_call.file
            data == fn_ret.data
        IN IF f.kind # "object" \/ f.content = <<>>
           THEN /\ fn_ret.raised # "None"
                /\ data = <<>>
                /\ f.kind = "missing" => fn_ret.raised = "FileNotFoundError"
                /\ (f.kind = "not_object" \/ f.kind = "object")
                      => fn_ret.raised = "ValueError"
           ELSE /\ fn_ret.raised = "None"
                /\ {data[i].label : i \in 1..Len(data)} = FileLabels(f.content)
                /\ \A i, j \in 1..Len(data) :
                      i < j => FirstAt(f.content, data[i].label)
                                 < FirstAt(f.content, data[j].label)
                /\ \A i \in 1..Len(data) :
                      data[i] = f.content[LastAt(f.content, data[i].label)]

C16_Witness ==
    /\ Returned("load_tokens_file")
    /\ fn_call.file.kind = "object"
    /\ fn_call.file.content = <<>>
    /\ fn_ret.raised = "ValueError"

(***************************************************************************)
(* C17: one line per label, in the token store's order                     *)
(***************************************************************************)

\* the sections the variant renders
RenderedSections ==
    IF variant = "views" THEN {blocks.views}
    ELSE IF variant = "revenue" THEN {blocks.rev}
    ELSE {blocks.rev, blocks.views}

\* one line per label of the token store, in its order
OneLinePerLabel(lines) ==
    /\ Len(lines) = Len(tokens)
    /\ \A k \in 1..Len(tokens) : lines[k].label = tokens[k].label

\* C17: for every result mapping the rendered yesterday list and projection
\* list hold exactly one line per label of the token store, in its insertion
\* order, whatever the label's entry is (values, all None, or no entry), and
\* building the blocks again from the same inputs gives the same blocks.
C17_OneLinePerLabelInOrder ==
    blocks.built =>
        /\ \A sec \in RenderedSections :
              OneLinePerLabel(sec.y_lines) /\ OneLinePerLabel(sec.proj_lines)
        /\ BuildBlocks = blocks

C17_Witness ==
    /\ blocks.built
    /\ variant = "combined"
    /\ tokens[1].label = Labels[Len(Labels)]
    /\ per_chan[tokens[1].label] = NoEntry
    /\ per_chan[tokens[Len(tokens)].label].rev.y = Num(3)

(***************************************************************************)
(* C18: delivery                                                           *)
(***************************************************************************)

\* the requests of the delivery phase: the spreadsheet write, the webhook
\* self-test and the posts of the report
DeliveryRequests == {k \in 1..Len(requests) : requests[k].pass = "deliver"}
FailedDeliveries == {k \in DeliveryRequests : requests[k].outcome # "ok"}
DeliveryPositions == {"sheets", "self_test", "render", "post", "post_b", "summary", "done"}

\* what holds of the request log once a delivery has been attempted
DeliveryState ==
    /\ DeliveryRequests # {} =>
          /\ \A l \in LabelSet : per_chan[l].present
          /\ pc \in DeliveryPositions
    /\ FailedDeliveries # {} =>
          /\ pc # "fatal"
          /\ exit_code # "1"
          /\ exit_code = "0" => pc = "done"
    /\ \A j, k \in DeliveryRequests :
          requests[j].purpose = requests[k].purpose => j = k

\* what a step of the delivery phase leaves alone
DeliveryStep ==
    pc \in DeliveryPositions =>
        /\ per_chan' = per_chan
        /\ global_latest' = global_latest
        /\ pc' \in DeliveryPositions
        /\ (pc' = "done" => pc \in {"summary", "done"})

\* C18: the spreadsheet and the webhook are called only once every label has
\* its entry in the result mapping; a failed delivery (a status that is not
\* 2xx, or an exception) never aborts the run, each delivery is attempted at
\* most once, the delivery phase changes no computed result, and the run ends
\* only through the console summary, with exit status 0.
C18_DeliveryFailureIsNotFatal ==
    []DeliveryState /\ [][DeliveryStep]_vars

C18_Witness ==
    /\ pc = "done"
    /\ exit_code = "0"
    /\ \E j, k \in FailedDeliveries :
          /\ requests[j].kind = "sheets" /\ requests[j].outcome = "exception"
          /\ requests[k].purpose = "part_a" /\ requests[k].outcome = "non_2xx"

(***************************************************************************)
(* C19: one channel at a time, in two passes                               *)
(***************************************************************************)

\* the requests of a pass
PassRequests(pass) == {k \in 1..Len(requests) : requests[k].pass = pass}

\* what holds of the request log and of the position of main()
SequentialLog ==
    \* within a pass the channels follow each other in the token store's order
    /\ \A pass \in {"fetch", "reconcile"} : \A j, k \in PassRequests(pass) :
          j < k => IndexOf(requests[j].label) <= IndexOf(requests[k].label)
    \* no request of the fetch pass comes after one of the reconcile pass
    /\ \A j \in PassRequests("reconcile"), k \in PassRequests("fetch") : k < j
    \* inside the fetch pass no later channel has a request or an entry, the
    \* global latest day is not computed and nothing is reconciled
    /\ pc \in FetchPositions =>
          /\ \A k \in PassRequests("fetch") : IndexOf(requests[k].label) <= idx
          /\ \A k \in 1..N : k > idx => ~per_chan[tokens[k].label].present
          /\ pc = "loop" =>
                \A k \in PassRequests("fetch") : IndexOf(requests[k].label) < idx
          /\ global_latest = NoneDay
          /\ PassRequests("reconcile") = {}
    \* the global latest day and the reconcile queries come after the entry
    \* of the last channel
    /\ (global_latest # NoneDay \/ PassRequests("reconcile") # {}) =>
          \A l \in LabelSet : per_chan[l].present
    /\ PassRequests("reconcile") # {} => global_latest # NoneDay

\* a step issues at most one request, and only once every earlier one has
\* returned: the log grows by one finished request at a time
OneCallAtATime ==
    \/ requests' = requests
    \/ /\ Len(requests') = Len(requests) + 1
       /\ SubSeq(requests', 1, Len(requests)) = requests

\* C19: channels are processed one at a time in two passes: the requests of
\* the fetch pass follow the token store's order, no request for a later
\* channel is issued while a channel is being fetched, the global latest day
\* is computed and the reconcile queries are issued only after the fetch
\* pass has given every channel its entry, and no two network calls overlap.
C19_SequentialTwoPasses ==
    []SequentialLog /\ [][OneCallAtATime]_vars

C19_Witness ==
    /\ pc = "done"
    /\ \A l \in LabelSet :
          /\ \E k \in PassRequests("fetch") :
                requests[k].label = l /\ requests[k].kind = "analytics"
          /\ \E k \in PassRequests("reconcile") :
                requests[k].label = l /\ requests[k].kind = "analytics"

(***************************************************************************)
(* C20: pct_change on a falsy baseline                                     *)
(***************************************************************************)

\* C20: whenever base is 0 (of either number type), None or the empty
\* string, pct_change(curr, base) returns the empty annotation for every
\* curr, a curr that is no number included: nothing is divided and nothing
\* is raised.
C20_FalsyBaseGivesEmptyAnnotation ==
    (/\ Returned("pct_change")
     /\ \/ fn_call.base \in {None, EmptyString}
        \/ (fn_call.base.tag = "num" /\ fn_call.base.n = 0))
        => /\ ~fn_ret.raised
           /\ ~fn_ret.shown
           /\ fn_ret = NoPct

C20_Witness ==
    /\ Returned("pct_change")
    /\ fn_call.base = Frac(0, 2)
    /\ fn_call.curr = NotANumber
    /\ fn_ret = NoPct

(***************************************************************************)
(* C21: pct_change on a non-zero baseline                                  *)
(***************************************************************************)

\* (curr - base) / base * 100 as a fraction with a positive denominator
DeltaNum(curr, base) ==
    LET k == (curr.n * base.den - base.n * curr.den) * 100
    IN IF base.n < 0 THEN 0 - k ELSE k
DeltaDen(curr, base) ==
    LET k == curr.den * base.n
    IN IF k < 0 THEN 0 - k ELSE k

\* m is the whole number nearest to a/b (a >= 0, b > 0), the even one of two
\* equally near
IsNearest(m, a, b) ==
    LET twice == 2 * a - 2 * m * b
    IN /\ twice <= b
       /\ 0 - b <= twice
       /\ (twice = b \/ twice = 0 - b) => m % 2 = 0

\* C21: for two numbers with base not zero, pct_change(curr, base) shows
\* (curr - base) / base * 100 rounded to a whole percent, with a "+" in front
\* exactly when that delta is >= 0 and, when it is negative, only the minus
\* sign of the number itself; a positive delta never shows a minus sign.
C21_PctChangeShowsSignedDelta ==
    (/\ Returned("pct_change")
     /\ fn_call.curr.tag = "num"
     /\ fn_call.base.tag = "num"
     /\ fn_call.base.n # 0)
        => LET a == DeltaNum(fn_call.curr, fn_call.base)
               b == DeltaDen(fn_call.curr, fn_call.base)
           IN /\ fn_ret.shown
              /\ ~fn_ret.raised
              /\ fn_ret.plus = (a >= 0)
              /\ a < 0 => fn_ret.neg
              /\ a > 0 => ~fn_ret.neg
              /\ IsNearest(fn_ret.mag, IF a < 0 THEN 0 - a ELSE a, b)
              /\ (fn_call.curr = Num(110) /\ fn_call.base = Num(100))
                    => fn_ret.plus /\ fn_ret.mag = 10
              /\ (fn_call.curr = Num(100) /\ fn_call.base = Num(100))
                    => fn_ret.plus /\ fn_ret.mag = 0

C21_Witness ==
    /\ Returned("pct_change")
    /\ fn_call.curr = Num(90)
    /\ fn_call.base = Num(100)
    /\ fn_ret = [shown |-> TRUE, plus |-> FALSE, neg |-> TRUE, mag |-> 10, raised |-> FALSE]

(***************************************************************************)
(* C22: the retry of detect_latest_day                                     *)
(***************************************************************************)

\* the first queries of detect_latest_day that succeeded without rows
EmptyDetections ==
    {k \in 1..Len(requests) :
        /\ requests[k].purpose = "detect"
        /\ requests[k].outcome = "ok"
        /\ requests[k].nrows = 0}

IsoOrdinal(s) == ToOrdinal(ParseIso(s))

\* C22: when the first query of detect_latest_day succeeds without rows,
\* exactly one further detection query follows for the same channel and
\* metric, with the same end date and a strictly earlier start date; until
\* that query has returned, detect_latest_day has not returned.
C22_EmptyDetectionRetriesOnce ==
    \A k \in EmptyDetections :
        IF k = Len(requests)
        THEN pc = "detect_retry"
        ELSE /\ requests[k + 1].purpose = "detect_retry"
             /\ requests[k + 1].label = requests[k].label
             /\ requests[k + 1].metric = requests[k].metric
             /\ requests[k + 1].end_date = requests[k].end_date
             /\ IsoOrdinal(requests[k + 1].start_date) < IsoOrdinal(requests[k].start_date)
             /\ (k + 2 <= Len(requests)) => requests[k + 2].purpose # "detect_retry"
             /\ (k + 1 = Len(requests) /\ requests[k + 1].outcome = "ok"
                 /\ requests[k + 1].nrows = 0)
                   => cur[FamilyOf(requests[k].metric)].latest = NoneDay

(***************************************************************************)
(* C23: the latest day among the rows                                      *)
(***************************************************************************)

\* the dates of the rows of the response given to the call
RowDays == {ParseIso(fn_call.resp.rows[k][1]) : k \in 1..Len(fn_call.resp.rows)}

\* C23: when the detection query returned at least one row,
\* detect_latest_day returns the chronologically latest date among the rows,
\* whatever their order and their values (0 included).
C23_LatestDayIsMaxRowDate ==
    (Returned("detect_latest_day") /\ ~fn_call.resp.missing /\ Len(fn_call.resp.rows) > 0)
        => /\ fn_ret \in RowDays
           /\ \A dt \in RowDays : ToOrdinal(dt) <= ToOrdinal(fn_ret)

C23_Witness ==
    /\ Returned("detect_latest_day")
    /\ fn_call.resp.rows = << <<<<2025, 10, 15>>, 0>>, <<<<2024, 12, 31>>, 2>>,
                              <<<<2025, 9, 30>>, 1>> >>
    /\ fn_ret = Day(2025, 10, 15)

(***************************************************************************)
(* C24: the three ranges of the fetch pass                                 *)
(***************************************************************************)

\* the latest day detected for the channel and metric of a fetch request:
\* the one stored in the channel's entry or, for the channel in progress,
\* the one main() holds
LatestFor(r) ==
    IF per_chan[r.label].present
    THEN per_chan[r.label][FamilyOf(r.metric)].latest
    ELSE cur[FamilyOf(r.metric)].latest

\* the month before the month of a day, by the calendar
MonthBefore(dt) ==
    IF dt.m = 1 THEN [y |-> dt.y - 1, m |-> 12] ELSE [y |-> dt.y, m |-> dt.m - 1]

\* the sum queries of the fetch pass
SumRequests ==
    {k \in 1..Len(requests) :
        requests[k].pass = "fetch" /\ requests[k].purpose \in {"y", "mtd", "last_month"}}

\* C24: with L the latest day detected for a channel and metric, the fetch
\* pass queries yesterday over [L, L], month-to-date over [first day of L's
\* month, L] and the previous month over the whole calendar month before L's
\* month, first to last day (December of the year before when L is in
\* January), the last day being the month's Gregorian length.
C24_FetchRanges ==
    \A k \in SumRequests :
        LET r == requests[k]
            L == LatestFor(r)
            pm == MonthBefore(L)
        IN /\ L # NoneDay
           /\ r.purpose = "y" =>
                r.start_date = <<L.y, L.m, L.d>> /\ r.end_date = <<L.y, L.m, L.d>>
           /\ r.purpose = "mtd" =>
                r.start_date = <<L.y, L.m, 1>> /\ r.end_date = <<L.y, L.m, L.d>>
           /\ r.purpose = "last_month" =>
                /\ r.start_date = <<pm.y, pm.m, 1>>
                /\ r.end_date = <<pm.y, pm.m, GregorianLen(pm.y, pm.m)>>

C24_Witness ==
    \E j, k \in SumRequests :
        /\ requests[j].purpose = "last_month"
        /\ requests[j].start_date = <<2024, 12, 1>>
        /\ requests[j].end_date = <<2024, 12, 31>>
        /\ requests[k].purpose = "last_month"
        /\ requests[k].start_date = <<2024, 11, 1>>
        /\ requests[k].end_date = <<2024, 11, 30>>

(***************************************************************************)
(* C25: the token of the reconcile pass                                    *)
(***************************************************************************)

\* the labels whose access token the fetch pass cached
CachedLabels ==
    {requests[k].label : k \in {j \in PassRequests("fetch") :
        /\ requests[j].kind = "token"
        /\ requests[j].outcome = "ok"}}

\* the token exchanges and the recompute queries of the reconcile pass
ReconcileTokens == {k \in PassRequests("reconcile") : requests[k].kind = "token"}
ReconcileQueries(l) ==
    {k \in PassRequests("reconcile") :
        requests[k].kind = "analytics" /\ requests[k].label = l}

\* the reconcile pass is past the channel
Reconciled(l) ==
    /\ global_latest # NoneDay
    /\ \/ pc \in {"reconcile", "r_token", "r_sum"} /\ idx > IndexOf(l)
       \/ pc \in {"render", "post", "summary", "done"}

\* C25: in the reconcile pass a channel without a cached access token and
\* with a refresh token gets exactly one token exchange; when it succeeds the
\* token is cached and the recompute query over [first day of the global
\* month, global latest day] is the next request; when it fails, or when the
\* channel has no refresh token, the channel gets reconciled MTD None with
\* reason "no_access_token" and no recompute query.
C25_ReconcileTokenExchange ==
    /\ \A k \in ReconcileTokens :
         LET r == requests[k]
             l == r.label
         IN /\ l \notin CachedLabels
            /\ tokens[IndexOf(l)].refresh_token
            /\ \A j \in ReconcileTokens : requests[j].label = l => j = k
            /\ IF r.outcome = "ok"
               THEN /\ per_chan[l].access_token = AccessToken
                    /\ IF k = Len(requests)
                       THEN pc = "r_sum" /\ idx = IndexOf(l)
                       ELSE /\ requests[k + 1].kind = "analytics"
                            /\ requests[k + 1].pass = "reconcile"
                            /\ requests[k + 1].label = l
                            /\ requests[k + 1].start_date
                                 = <<global_latest.y, global_latest.m, 1>>
                            /\ requests[k + 1].end_date = IsoFormat(global_latest)
               ELSE /\ per_chan[l].mtd_views_global = None
                    /\ per_chan[l].reason = "no_access_token"
                    /\ ReconcileQueries(l) = {}
                    /\ pc \in {"reconcile", "r_token", "r_sum"} => idx > IndexOf(l)
                    /\ k = Len(requests) => pc # "fatal"
    /\ \A l \in LabelSet :
         Reconciled(l) =>
            /\ (l \notin CachedLabels /\ tokens[IndexOf(l)].refresh_token)
                  => \E k \in ReconcileTokens : requests[k].label = l
            /\ (l \notin CachedLabels /\ ~tokens[IndexOf(l)].refresh_token)
                  => /\ per_chan[l].mtd_views_global = None
                     /\ per_chan[l].reason = "no_access_token"
                     /\ ReconcileQueries(l) = {}
                     /\ \A k \in ReconcileTokens : requests[k].label # l

C25_Witness ==
    /\ pc = "done"
    /\ \E k \in ReconcileTokens :
         /\ requests[k].outcome = "ok"
         /\ requests[k + 1].outcome = "ok"
         /\ per_chan[requests[k].label].mtd_views_global.tag = "num"
         /\ per_chan[requests[k].label].views.latest = NoneDay

(***************************************************************************)
(* C26, C27: the parameters of the requests                                *)
(***************************************************************************)

AnalyticsRequests == {k \in 1..Len(requests) : requests[k].kind = "analytics"}

\* C26: an analytics request carries a currency parameter only when its
\* metric is the revenue metric; a views query never carries one.
C26_CurrencyOnlyForRevenue ==
    \A k \in AnalyticsRequests :
        requests[k].currency => requests[k].metric = "estimatedRevenue"

\* C27: every token exchange, identity lookup, analytics query and webhook
\* post is issued with a timeout (0 stands for a call without one).
C27_EveryCallHasTimeout ==
    \A k \in 1..Len(requests) :
        requests[k].kind \in {"token", "identity", "analytics", "webhook"}
            => requests[k].timeout > 0

(***************************************************************************)
(* C28: reconciled MTD and failure reason                                  *)
(***************************************************************************)

\* the labels whose recompute query came back with rows or an empty answer
RecomputedLabels ==
    {requests[k].label : k \in {j \in PassRequests("reconcile") :
        requests[j].kind = "analytics" /\ requests[j].outcome = "ok"}}

\* C28: in the views variant, once the reconcile pass (run with a global
\* latest day) is past a channel, the channel's reconciled MTD is None
\* exactly when its failure reason is not None; a channel whose recompute
\* succeeded has reason None and a number, possibly 0, as reconciled MTD.
C28_ReconciledNoneIffReason ==
    /\ \A l \in LabelSet :
         Reconciled(l) =>
            ((per_chan[l].mtd_views_global = None) <=> (per_chan[l].reason # "None"))
    /\ \A l \in RecomputedLabels :
         /\ per_chan[l].reason = "None"
         /\ per_chan[l].mtd_views_global.tag = "num"

C28_Witness ==
    /\ pc = "done"
    /\ global_latest # NoneDay
    /\ \E a, b \in LabelSet :
         /\ per_chan[a].mtd_views_global = Num(0)
         /\ per_chan[a].reason = "None"
         /\ per_chan[b].mtd_views_global = None
         /\ per_chan[b].reason = "403_forbidden"

(***************************************************************************)
(* C29: the figures of a family form a prefix                              *)
(***************************************************************************)

\* the families the variant records
RecordedFamilies ==
    IF variant = "views" THEN {"views"}
    ELSE IF variant = "revenue" THEN {"rev"}
    ELSE {"rev", "views"}

\* latest day, yesterday, month-to-date, previous month: each present only
\* if the one before it is
IsPrefix(f) ==
    /\ f.last_month # None => f.mtd # None
    /\ f.mtd # None => f.y # None
    /\ f.y # None => f.latest # NoneDay

\* the sum queries of the fetch pass that failed with an HTTP error and
\* whose channel has its entry
FailedSums ==
    {k \in SumRequests :
        /\ requests[k].outcome \in {"http_403", "http_error"}
        /\ per_chan[requests[k].label].present}

\* C29: in every stored entry the figures of a family form a prefix of
\* (latest day, yesterday, month-to-date, previous month); after a query
\* failed part-way the latest day and the figures computed before it are in
\* the entry and the failed figure and the later ones are None.
C29_FiguresFormPrefix ==
    /\ \A l \in LabelSet, fam \in RecordedFamilies :
         per_chan[l].present => IsPrefix(per_chan[l][fam])
    /\ \A k \in FailedSums :
         LET r == requests[k]
             f == per_chan[r.label][FamilyOf(r.metric)]
         IN /\ f.latest # NoneDay
            /\ r.start_date \in {IsoFormat(f.latest), <<f.latest.y, f.latest.m, 1>>,
                                 IsoFormat(PrevMonthFirst(f.latest))}
            /\ f.last_month = None
            /\ r.purpose = "y" => f.y = None /\ f.mtd = None
            /\ r.purpose = "mtd" => f.y.tag = "num" /\ f.mtd = None
            /\ r.purpose = "last_month" => f.y.tag = "num" /\ f.mtd.tag = "num"

C29_Witness ==
    /\ pc = "done"
    /\ \E k \in FailedSums :
         /\ requests[k].purpose = "mtd"
         /\ requests[k].metric = "estimatedRevenue"
         /\ per_chan[requests[k].label].rev.y.tag = "num"
         /\ per_chan[requests[k].label].rev.mtd = None
         /\ per_chan[requests[k].label].views.last_month.tag = "num"

(***************************************************************************)
(* C30: post_blocks_in_two_parts                                           *)
(***************************************************************************)

\* the posts of the report with the given label, and whether one got a 2xx
Posts(purpose) == {k \in 1..Len(requests) : requests[k].purpose = purpose}
PostedOk(purpose) == \E k \in Posts(purpose) : requests[k].outcome = "ok"

\* C30: post_blocks_in_two_parts posts the revenue part first and the views
\* part only after the revenue part got a 2xx status, returns true exactly
\* when both posts succeeded, and issues a single post of all the blocks
\* when they hold no views header.
C30_TwoPartPosting ==
    /\ \A k \in Posts("part_b") :
         /\ k > 1
         /\ requests[k - 1].purpose = "part_a"
         /\ requests[k - 1].outcome = "ok"
    /\ \A p \in {"part_a", "part_b", "single"} : Cardinality(Posts(p)) <= 1
    /\ IF blocks.views = NoSection
       THEN /\ Posts("part_a") = {} /\ Posts("part_b") = {}
            /\ pc = "summary" =>
                 /\ (delivered = "True") <=> PostedOk("single")
                 /\ env.webhook = "slack" => Cardinality(Posts("single")) = 1
       ELSE /\ Posts("single") = {}
            /\ pc = "summary" =>
                 /\ (delivered = "True") <=> (PostedOk("part_a") /\ PostedOk("part_b"))
                 /\ env.webhook = "slack" => Cardinality(Posts("part_a")) = 1
                 /\ PostedOk("part_a") => Cardinality(Posts("part_b")) = 1
    /\ pc = "summary" => delivered \in {"True", "False"}

C30_Witness ==
    /\ pc = "summary"
    /\ blocks.views # NoSection
    /\ Len(requests) = 2
    /\ requests[1].purpose = "part_a" /\ requests[1].outcome = "ok"
    /\ requests[2].purpose = "part_b" /\ requests[2].outcome = "non_2xx"
    /\ delivered = "False"

=============================================================================
